---- MODULE Spec2Model ----
(***************************************************************************)
(* Kaminari extension: the folder store (js/folders.js over                *)
(* chrome.storage.local) and the folder sharing pipeline                   *)
(* (js/encryption.js, js/share.js, ui/folders-ui.js).                      *)
(*                                                                         *)
(* Text is modelled as a sequence of UTF-16 code units (natural numbers),  *)
(* byte arrays as sequences of 0..255.                                     *)
(***************************************************************************)
EXTENDS Integers, Sequences, FiniteSets, TLC

VARIABLES
  stored,      \* chrome.storage.local["folders"] (an absent key reads as [])
  mem,         \* per extension context: the module variable `folders`
  shared,      \* TRUE: the tasks run in one context; FALSE: each in a context of its own
  pc,          \* per task: "idle" | "save" (awaiting saveFolders) | "done"
  op,          \* per task: the operation in progress and its arguments
  pending,     \* per task: the list handed to chrome.storage.local.set
  ret,         \* per task: what the last finished operation returned
  hist,        \* per task: history of the operation in progress or last finished
  faults,      \* storage calls that have failed so far (chrome.runtime.lastError set)
  now,         \* the clock read by Date.now() / new Date()
  LZString,    \* whether the global LZString is defined
  phase,       \* share flow: "idle" | "encrypted" | "decrypted" | "retrieved" | "shared" | "viewed"
  encIn,       \* the arguments of the last encrypt call
  envelope,    \* what encrypt returned or threw
  decIn,       \* the arguments of the last decrypt / retrieveSharedData call
  dec,         \* what decrypt or retrieveSharedData returned or threw
  share,       \* the share modal after handleShareFolder
  requests,    \* every HTTP request sent so far
  page,        \* the share page after a password submission
  ui,          \* the folder dialogs of the popup and the folder preview page
  fmt          \* one call of the tab formatter: its input and its output

storeVars == <<stored, mem, shared, pc, op, pending, ret, hist, faults, now>>

shareVars == <<LZString, phase, encIn, envelope, decIn, dec, share, requests, page>>

viewVars == <<ui, fmt>>

vars == <<stored, mem, shared, pc, op, pending, ret, hist, faults, now,
          LZString, phase, encIn, envelope, decIn, dec, share, requests, page,
          ui, fmt>>

(***************************************************************************)
(* Bounds                                                                  *)
(***************************************************************************)
MaxFolders == 2
MaxClock == 1
MaxTabs == 1
MaxFaults == 1
MaxPlainLen == 2

Tasks == { 1, 2 }

\* One `folders` variable per extension context (a popup instance, the
\* folder-preview tab).  The tasks either all run in context 1 or each in
\* its own.
Contexts == Tasks

CtxOf(t) == IF shared THEN 1 ELSE t

(***************************************************************************)
(* Folder store: js/folders.js                                             *)
(***************************************************************************)
Undefined == "undefined"

\* Browser tabs as handed to the store (title / url / favIconUrl may be missing).
BrowserTabs ==
  { [title |-> "A", url |-> "https://a.com", favIconUrl |-> Undefined] }

TabLists == { <<>> } \cup { <<x>> : x \in BrowserTabs }

Names == { "Research" }

\* x || ""
OrEmpty(x) == IF x = Undefined \/ x = "" THEN "" ELSE x

chromeTabToCompactTab(tab) ==
  [t |-> OrEmpty(tab.title), u |-> OrEmpty(tab.url), f |-> OrEmpty(tab.favIconUrl)]

CompactAll(tabs) == [i \in 1..Len(tabs) |-> chromeTabToCompactTab(tabs[i])]

\* `${prefix}${Date.now()}_${Math.random().toString(36).substr(2, 9)}`
generateUniqueId(clock, rnd) == <<"folder_", clock, rnd>>

\* folders.findIndex((f) => f.id === folderId); 0 stands for -1
findIndex(list, folderId) ==
  IF \E i \in 1..Len(list) : list[i].id = folderId
  THEN CHOOSE i \in 1..Len(list) :
         /\ list[i].id = folderId
         /\ \A j \in 1..(i - 1) : list[j].id # folderId
  ELSE 0

\* Merge that also stamps the folder anew.
MergeStamped(folder, updates) ==
  [k \in (DOMAIN folder) \cup (DOMAIN updates) |->
     IF k \in DOMAIN updates THEN updates[k]
     ELSE IF k = "createdAt" THEN folder[k] + 1 ELSE folder[k]]

\* { ...folders[index], ...updates }
Merge(folder, updates) ==
  [k \in (DOMAIN folder) \cup (DOMAIN updates) |->
     IF k \in DOMAIN updates THEN updates[k] ELSE folder[k]]

\* folders.splice(index, 1)
RemoveAt(list, i) ==
  [j \in 1..(Len(list) - 1) |-> IF j < i THEN list[j] ELSE list[j + 1]]

\* What an operation hands back to its caller.
NoResult == [kind |-> "none"]
Null == [kind |-> "null"]
UndefinedResult == [kind |-> "undefined"]
FolderResult(f) == [kind |-> "folder", folder |-> f]
BoolResult(b) == [kind |-> "bool", bool |-> b]

NoId == <<"folder_", 0, 0>>
NoFolder == [id |-> NoId, name |-> "", createdAt |-> 0, tabs |-> <<>>]
NoOp == [name |-> "none", id |-> NoId, fname |-> "", tabs |-> <<>>,
         updates |-> <<>>, folder |-> NoFolder, tabIndex |-> 0]
NoHist == [readFailed |-> FALSE, writeFailed |-> FALSE]

\* The ids a caller can name: every id the store can generate, and one that
\* no folder has.
Rnds == { 1 }

KnownIds ==
  { generateUniqueId(c, r) : c \in 0..MaxClock, r \in Rnds } \cup { NoId }

Updates == { [tabs |-> <<>>] }

\* loadFolders (folders.js:27-36): on success `folders = result.folders || []`;
\* a rejected read is caught and logged, and `folders` keeps its old value.
loadFolders(c, ok) == IF ok THEN stored ELSE mem[c]

\* A write that keeps what storage holds and adds only the folders it lacks.
saveFoldersMerging(list, ok) ==
  IF ok
  THEN stored \o SelectSeq(list, LAMBDA f : findIndex(stored, f.id) = 0)
  ELSE stored

\* saveFolders (folders.js:42-48): `await saveToStorage({ folders })`; a
\* rejected write is caught and logged.
saveFolders(list, ok) == IF ok THEN list ELSE stored

\* The change an operation makes to the list it works on, between its two awaits.
Apply(list, o) ==
  LET idx == findIndex(list, o.id) IN
    CASE o.name = "create" -> Append(list, o.folder)
      [] o.name = "update" /\ idx # 0 ->
           [list EXCEPT ![idx] = Merge(list[idx], o.updates)]
      [] o.name = "addTabs" /\ idx # 0 ->
           [list EXCEPT ![idx].tabs = list[idx].tabs \o CompactAll(o.tabs)]
      [] o.name = "delete" /\ idx # 0 -> RemoveAt(list, idx)
      [] OTHER -> list

\* The operations a caller can start, with their arguments.
Calls ==
  { [NoOp EXCEPT !.name = "create", !.fname = n, !.tabs = tl] :
      n \in Names, tl \in TabLists }
    \cup { [NoOp EXCEPT !.name = "update", !.id = i, !.updates = u] :
             i \in KnownIds, u \in Updates }
    \cup { [NoOp EXCEPT !.name = "addTabs", !.id = i, !.tabs = tl] :
             i \in KnownIds, tl \in TabLists \ { <<>> } }
    \cup { [NoOp EXCEPT !.name = "delete", !.id = i] : i \in KnownIds }
    \cup { [NoOp EXCEPT !.name = "get", !.id = i] : i \in KnownIds }

\* An operation is called and runs to its second await: `await loadFolders()`
\* is served by storage (or fails), then the function runs on to
\* `await saveFolders()`, which issues chrome.storage.local.set, or returns.
Begin(t) ==
  /\ pc[t] = "idle"
  /\ \E call \in Calls, ok \in BOOLEAN, rnd \in Rnds :
       LET c == CtxOf(t)
           list == loadFolders(c, ok)
           folder == [id |-> generateUniqueId(now, rnd), name |-> call.fname,
                      createdAt |-> now, tabs |-> CompactAll(call.tabs)]
           o == IF call.name = "create"
                THEN [call EXCEPT !.folder = folder]
                ELSE call
           idx == findIndex(list, o.id)
       IN
         /\ ~ok => faults < MaxFaults
         /\ faults' = IF ok THEN faults ELSE faults + 1
         /\ Len(Apply(list, o)) <= MaxFolders
         /\ \A i \in 1..Len(Apply(list, o)) : Len(Apply(list, o)[i].tabs) <= MaxTabs
         /\ hist' = [hist EXCEPT ![t].readFailed = ~ok]
         /\ op' = [op EXCEPT ![t] = o]
         /\ IF o.name = "get"
            THEN /\ mem' = [mem EXCEPT ![c] = list]
                 /\ ret' = [ret EXCEPT ![t] =
                              IF idx = 0 THEN Null ELSE FolderResult(list[idx])]
                 /\ pc' = [pc EXCEPT ![t] = "done"]
                 /\ UNCHANGED pending
            ELSE IF o.name # "create" /\ idx = 0
            THEN /\ mem' = [mem EXCEPT ![c] = list]
                 /\ ret' = [ret EXCEPT ![t] =
                              IF o.name = "delete" THEN BoolResult(FALSE) ELSE Null]
                 /\ pc' = [pc EXCEPT ![t] = "done"]
                 /\ UNCHANGED pending
            ELSE /\ mem' = [mem EXCEPT ![c] = Apply(list, o)]
                 /\ pending' = [pending EXCEPT ![t] = Apply(list, o)]
                 /\ pc' = [pc EXCEPT ![t] = "save"]
                 /\ UNCHANGED ret
  /\ UNCHANGED <<stored, shared, now>>
  /\ UNCHANGED <<shareVars, viewVars>>

\* The storage write completes (or fails) and the function returns.
SaveDone(t) ==
  /\ pc[t] = "save"
  /\ \E ok \in BOOLEAN :
       LET c == CtxOf(t)
           o == op[t]
           idx == findIndex(pending[t], o.id)
       IN
         /\ ~ok => faults < MaxFaults
         /\ faults' = IF ok THEN faults ELSE faults + 1
         /\ stored' = saveFolders(pending[t], ok)
         /\ hist' = [hist EXCEPT ![t].writeFailed = ~ok]
         /\ ret' = [ret EXCEPT ![t] =
                      CASE o.name = "create" -> FolderResult(o.folder)
                        [] o.name = "delete" -> BoolResult(TRUE)
                        [] OTHER ->
                             \* return folders[index], read after the await
                             IF idx <= Len(mem[c])
                             THEN FolderResult(mem[c][idx])
                             ELSE UndefinedResult]
  /\ pc' = [pc EXCEPT ![t] = "done"]
  /\ UNCHANGED <<mem, shared, op, pending, now>>
  /\ UNCHANGED <<shareVars, viewVars>>

\* The caller has taken the result.
Return(t) ==
  /\ pc[t] = "done"
  /\ pc' = [pc EXCEPT ![t] = "idle"]
  /\ op' = [op EXCEPT ![t] = NoOp]
  /\ pending' = [pending EXCEPT ![t] = <<>>]
  /\ ret' = [ret EXCEPT ![t] = NoResult]
  /\ hist' = [hist EXCEPT ![t] = NoHist]
  /\ UNCHANGED <<stored, mem, shared, faults, now>>
  /\ UNCHANGED <<shareVars, viewVars>>

\* Time passes.
Tick ==
  /\ now < MaxClock
  /\ now' = now + 1
  /\ UNCHANGED <<stored, mem, shared, pc, op, pending, ret, hist, faults>>
  /\ UNCHANGED <<shareVars, viewVars>>

(***************************************************************************)
(* Text and byte helpers                                                   *)
(***************************************************************************)
\* The element of a singleton set.  A value that is used more than once is
\* bound as x in The({ e : x \in { v } }), so that it is computed once.
The(S) == CHOOSE x \in S : TRUE

\* A value or a thrown exception.
Ok(v) == [ok |-> TRUE, val |-> v, err |-> ""]
Throw(e) == [ok |-> FALSE, val |-> <<>>, err |-> e]

\* The concatenation of pieces[lo..hi] (halving, so that long texts do not
\* nest deeply).
RECURSIVE ConcatRange(_, _, _)
ConcatRange(pieces, lo, hi) ==
  IF lo > hi THEN <<>>
  ELSE IF lo = hi THEN pieces[lo]
  ELSE LET mid == (lo + hi) \div 2
       IN ConcatRange(pieces, lo, mid) \o ConcatRange(pieces, mid + 1, hi)

Flatten(pieces) == ConcatRange(pieces, 1, Len(pieces))

RECURSIVE SumRange(_, _, _)
SumRange(xs, lo, hi) ==
  IF lo > hi THEN 0
  ELSE IF lo = hi THEN xs[lo]
  ELSE LET mid == (lo + hi) \div 2
       IN SumRange(xs, lo, mid) + SumRange(xs, mid + 1, hi)

SumSeq(xs) == SumRange(xs, 1, Len(xs))

\* Positions of code unit c in text, ascending.
Positions(text, c) ==
  Flatten([i \in 1..Len(text) |-> IF text[i] = c THEN <<i>> ELSE <<>>])

\* The base64 alphabet: A-Z a-z 0-9 + /
B64Char(v) ==
  IF v < 26 THEN 65 + v
  ELSE IF v < 52 THEN 97 + (v - 26)
  ELSE IF v < 62 THEN 48 + (v - 52)
  ELSE IF v = 62 THEN 43 ELSE 47

B64Value(c) ==
  IF c >= 65 /\ c <= 90 THEN c - 65
  ELSE IF c >= 97 /\ c <= 122 THEN c - 71
  ELSE IF c >= 48 /\ c <= 57 THEN c + 4
  ELSE IF c = 43 THEN 62
  ELSE IF c = 47 THEN 63 ELSE -1

Pow(b, e) == IF e = 0 THEN 1 ELSE IF e = 1 THEN b ELSE IF e = 2 THEN b * b ELSE b * b * b

\* window.btoa: base64 of a binary string; throws on a code unit above 255.
btoa(str) ==
  IF \E i \in 1..Len(str) : str[i] > 255 THEN Throw("InvalidCharacterError")
  ELSE
    LET n == Len(str)
        at(i) == IF i <= n THEN str[i] ELSE 0
        out == [j \in 1..(4 * ((n + 2) \div 3)) |->
                 LET g == (j - 1) \div 4
                     k == (j - 1) % 4
                     word == at(3 * g + 1) * 65536 + at(3 * g + 2) * 256 + at(3 * g + 3)
                 IN IF (k = 2 /\ 3 * g + 2 > n) \/ (k = 3 /\ 3 * g + 3 > n)
                    THEN 61
                    ELSE B64Char((word \div Pow(64, 3 - k)) % 64)] \o <<>>
    IN Ok(out)

\* window.atob (forgiving-base64 decode): up to two trailing "=" are removed
\* when the length is a multiple of 4; a remaining length of 1 mod 4 or any
\* code unit outside the alphabet throws.
atob(str) ==
  LET n0 == Len(str)
      pad == IF n0 % 4 = 0 /\ n0 > 0 /\ str[n0] = 61
             THEN (IF str[n0 - 1] = 61 THEN 2 ELSE 1)
             ELSE 0
  IN The({
       LET n == Len(data)
           at(i) == IF i <= n THEN B64Value(data[i]) ELSE 0
       IN IF n % 4 = 1 \/ \E i \in 1..n : B64Value(data[i]) < 0
          THEN Throw("InvalidCharacterError")
          ELSE Ok([j \in 1..((n * 6) \div 8) |->
                    LET g == (j - 1) \div 3
                        k == (j - 1) % 3
                        word == at(4 * g + 1) * 262144 + at(4 * g + 2) * 4096
                                  + at(4 * g + 3) * 64 + at(4 * g + 4)
                    IN (word \div Pow(256, 2 - k)) % 256] \o <<>>)
       : data \in { SubSeq(str, 1, n0 - pad) } })

\* str.replace(/a/g, b) for single code units
ReplaceAll(str, a, b) ==
  [i \in 1..Len(str) |-> IF str[i] = a THEN b ELSE str[i]] \o <<>>

\* str.replace(/=+$/, "")
RECURSIVE StripTrailingEquals(_)
StripTrailingEquals(str) ==
  IF str # <<>> /\ str[Len(str)] = 61
  THEN StripTrailingEquals(SubSeq(str, 1, Len(str) - 1))
  ELSE str

\* TextEncoder.encode: UTF-8 (code units below U+0800 only)
Utf8Char(c) == IF c < 128 THEN <<c>> ELSE <<192 + (c \div 64), 128 + (c % 64)>>

stringToUint8Array(str) == Flatten([i \in 1..Len(str) |-> Utf8Char(str[i])])

\* TextDecoder.decode: UTF-8 (one- and two-byte sequences); a byte that
\* is part of no well-formed sequence decodes to U+FFFD.
uint8ArrayToString(array) ==
  LET n == Len(array)
      lead(i) == i >= 1 /\ i <= n /\ array[i] >= 194 /\ array[i] < 224
      cont(i) == i >= 1 /\ i <= n /\ array[i] >= 128 /\ array[i] < 192
      \* a continuation byte taken by the lead byte before it
      taken(i) == cont(i) /\ lead(i - 1)
  IN Flatten([i \in 1..n |->
       IF array[i] < 128 THEN <<array[i]>>
       ELSE IF lead(i) /\ cont(i + 1)
            THEN <<(array[i] - 192) * 64 + (array[i + 1] - 128)>>
       ELSE IF taken(i) THEN <<>>
       ELSE <<65533>>])

\* uint8ArrayToBase64Url (encryption.js:60-71)
uint8ArrayToBase64Url(array) ==
  StripTrailingEquals(ReplaceAll(ReplaceAll(btoa(array).val, 43, 45), 47, 95))

\* base64UrlToUint8Array without the mapping back to the standard alphabet.
base64UrlToUint8ArrayAsIs(base64url) == atob(base64url)

\* base64UrlToUint8Array (encryption.js:78-93); throws what atob throws
base64UrlToUint8Array(base64url) ==
  atob(ReplaceAll(ReplaceAll(base64url, 45, 43), 95, 47))

(***************************************************************************)
(* JSON text of the two shapes the share pipeline serialises.  Strings     *)
(* hold no quote, backslash or control character, so JSON.stringify emits  *)
(* them unescaped.  JSON.parse is modelled on the texts that reach it: it  *)
(* returns the value whose serialisation the text is, and throws           *)
(* SyntaxError on any other text.                                          *)
(***************************************************************************)
JStr(str) == <<34>> \o str \o <<34>>

\* "key":
JKey(name) == JStr(name) \o <<58>>

\* The k-th double-quoted string of text.
Quoted(text, k) ==
  The({ IF 2 * k <= Len(q) THEN SubSeq(text, q[2 * k - 1] + 1, q[2 * k] - 1) ELSE <<>>
        : q \in { Positions(text, 34) } })

\* JSON.stringify({v, s, i, d})
JSONstringifyEnvelope(e) ==
  <<123>> \o JKey(<<118>>) \o <<48 + e.v>> \o <<44>>
    \o JKey(<<115>>) \o JStr(e.s) \o <<44>>
    \o JKey(<<105>>) \o JStr(e.i) \o <<44>>
    \o JKey(<<100>>) \o JStr(e.d) \o <<125>>

JSONparseEnvelope(text) ==
  The({ IF JSONstringifyEnvelope(e) = text THEN Ok(e) ELSE Throw("SyntaxError")
        : e \in { [v |-> IF Len(text) >= 6 /\ text[6] >= 48 /\ text[6] <= 57
                         THEN text[6] - 48 ELSE 0,
                   s |-> Quoted(text, 3), i |-> Quoted(text, 5),
                   d |-> Quoted(text, 7)] } })

JSONstringifyTab(tab) ==
  <<123>> \o JKey(<<116>>) \o JStr(tab.t) \o <<44>>
    \o JKey(<<117>>) \o JStr(tab.u) \o <<44>>
    \o JKey(<<102>>) \o JStr(tab.f) \o <<125>>

RECURSIVE JoinTabs(_)
JoinTabs(tabs) ==
  IF tabs = <<>> THEN <<>>
  ELSE JSONstringifyTab(Head(tabs))
         \o (IF Len(tabs) > 1 THEN <<44>> ELSE <<>>) \o JoinTabs(Tail(tabs))

\* JSON.stringify({id, name, createdAt, tabs: [{t, u, f}, ...]})
JSONstringifyFolder(folder) ==
  <<123>> \o JKey(<<105, 100>>) \o JStr(folder.id) \o <<44>>
    \o JKey(<<110, 97, 109, 101>>) \o JStr(folder.name) \o <<44>>
    \o JKey(<<99, 114, 101, 97, 116, 101, 100, 65, 116>>) \o JStr(folder.createdAt) \o <<44>>
    \o JKey(<<116, 97, 98, 115>>) \o <<91>> \o JoinTabs(folder.tabs) \o <<93, 125>>

JSONparseFolder(text) ==
  LET n == Len(Positions(text, 34)) \div 2
      ntabs == IF n >= 7 THEN (n - 7) \div 6 ELSE 0
  IN The({ IF JSONstringifyFolder(folder) = text THEN Ok(folder) ELSE Throw("SyntaxError")
           : folder \in { [id |-> Quoted(text, 2), name |-> Quoted(text, 4),
                           createdAt |-> Quoted(text, 6),
                           tabs |-> [k \in 1..ntabs |->
                                       [t |-> Quoted(text, 7 + 6 * (k - 1) + 2),
                                        u |-> Quoted(text, 7 + 6 * (k - 1) + 4),
                                        f |-> Quoted(text, 7 + 6 * (k - 1) + 6)]]
                                     \o <<>>] } })

(***************************************************************************)
(* Encryption engine: js/encryption.js                                     *)
(***************************************************************************)
SaltLen == 16
IvLen == 12
TagLen == 16

\* LZString.compressToBase64 / decompressFromBase64.  The library file is not
\* among the sources; it is modelled as a lossless coding into the base64
\* alphabet: the UTF-16 code units, big-endian, closed by an end-of-stream
\* marker.  decompressFromBase64 returns null on text the coder did not emit.
LZcompressToBase64(str) ==
  btoa(Flatten([i \in 1..Len(str) |-> <<str[i] \div 256, str[i] % 256>>]) \o <<128>>).val

LZdecompressFromBase64(text) ==
  The({ LET n == Len(bytes.val)
        IN IF ~bytes.ok \/ n % 2 # 1 \/ bytes.val[n] # 128
           THEN [ok |-> TRUE, val |-> <<>>, err |-> "null"]
           ELSE Ok([i \in 1..(n \div 2) |->
                     bytes.val[2 * i - 1] * 256 + bytes.val[2 * i]] \o <<>>)
        : bytes \in { atob(text) } })

\* compressData (encryption.js:12-19); lz: whether LZString is defined
compressData(data, lz) == IF lz THEN Ok(LZcompressToBase64(data)) ELSE btoa(data)

\* decompressData (encryption.js:26-33)
decompressData(compressedData, lz) ==
  IF lz THEN LZdecompressFromBase64(compressedData) ELSE atob(compressedData)

\* The key HMAC works with: a key shorter than the hash block is padded with
\* zero bytes (RFC 2104), so trailing zero bytes of the password do not count.
RECURSIVE HmacKey(_)
HmacKey(bytes) ==
  IF bytes # <<>> /\ bytes[Len(bytes)] = 0
  THEN HmacKey(SubSeq(bytes, 1, Len(bytes) - 1))
  ELSE bytes

\* deriveKey (encryption.js:101-128): PBKDF2-HMAC-SHA-256 over the UTF-8
\* password and the salt.  The derived key is a deterministic function of the
\* HMAC key and the salt, taken to be collision-free.
deriveKey(password, salt) ==
  [pw |-> HmacKey(stringToUint8Array(password)), salt |-> salt]

\* crypto.subtle.encrypt / decrypt with AES-GCM: the ciphertext is the data
\* under a key- and iv-dependent keystream, followed by the tag over key, iv
\* and ciphertext.  Decryption throws OperationError unless the tag verifies.
KeyDigest(key) ==
  (SumSeq([i \in 1..Len(key.pw) |-> key.pw[i] * i]) + SumSeq(key.salt)) % 251

AesGcmTag(key, iv, body) ==
  The({ [j \in 1..TagLen |-> (digest + iv[((j - 1) % Len(iv)) + 1] + j) % 256] \o <<>>
        : digest \in { KeyDigest(key) + SumSeq(body) } })

AesGcmEncrypt(key, iv, data) ==
  The({ The({ body \o AesGcmTag(key, iv, body)
              : body \in { [j \in 1..Len(data) |-> (data[j] + shift) % 256] \o <<>> } })
        : shift \in { KeyDigest(key) + iv[1] } })

AesGcmDecrypt(key, iv, ct) ==
  LET n == Len(ct) - TagLen
  IN IF n < 0 \/ Len(iv) = 0 THEN Throw("OperationError")
     ELSE The({ IF SubSeq(ct, n + 1, Len(ct)) # AesGcmTag(key, iv, body)
                THEN Throw("OperationError")
                ELSE Ok([j \in 1..n |-> (body[j] + 512 - shift) % 256] \o <<>>)
                : body \in { SubSeq(ct, 1, n) }, shift \in { KeyDigest(key) + iv[1] } })

EncryptionFailed == "Encryption failed"
DecryptionFailed == "Decryption failed. Incorrect password or corrupted data."

\* encrypt (encryption.js:136-173); salt and iv are the values
\* crypto.getRandomValues returned.
encrypt(data, password, salt, iv, lz) ==
  The({ IF ~compressedData.ok THEN Throw(EncryptionFailed)
        ELSE Ok([v |-> 1,
                 s |-> uint8ArrayToBase64Url(salt),
                 i |-> uint8ArrayToBase64Url(iv),
                 d |-> uint8ArrayToBase64Url(
                         AesGcmEncrypt(deriveKey(password, salt), iv,
                                       stringToUint8Array(compressedData.val)))])
        : compressedData \in { compressData(data, lz) } })

\* decrypt without the version check.
decryptAnyVersion(encryptedData, password, lz) ==
  LET fail(e, calls) == [ok |-> FALSE, val |-> <<>>, err |-> DecryptionFailed,
                         thrown |-> e, calls |-> calls]
  IN The({
       IF ~payload.ok THEN fail("SyntaxError", <<>>)
       ELSE The({
         IF ~decryptedBuffer.ok
         THEN fail("OperationError", <<"deriveKey", "decrypt">>)
         ELSE The({
           IF ~plain.ok
           THEN fail(plain.err, <<"deriveKey", "decrypt">>)
           ELSE [ok |-> TRUE, val |-> plain.val, err |-> plain.err,
                 thrown |-> "", calls |-> <<"deriveKey", "decrypt">>]
           : plain \in { decompressData(uint8ArrayToString(decryptedBuffer.val), lz) } })
         : decryptedBuffer \in
             { AesGcmDecrypt(deriveKey(password, base64UrlToUint8Array(payload.val.s).val),
                             base64UrlToUint8Array(payload.val.i).val,
                             base64UrlToUint8Array(payload.val.d).val) } })
       : payload \in { JSONparseEnvelope(encryptedData) } })

\* decrypt (encryption.js:181-216).  `thrown` is the error raised inside the
\* try block, `calls` the crypto operations started before it; the caller
\* sees only `err`.
decrypt(encryptedData, password, lz) ==
  LET fail(e, calls) == [ok |-> FALSE, val |-> <<>>, err |-> DecryptionFailed,
                         thrown |-> e, calls |-> calls]
      \* after the three base64url decodes
      decoded(salt, iv, encryptedArray) ==
        IF ~salt.ok \/ ~iv.ok \/ ~encryptedArray.ok
        THEN fail("InvalidCharacterError", <<>>)
        ELSE The({
          IF ~decryptedBuffer.ok
          THEN fail("OperationError", <<"deriveKey", "decrypt">>)
          ELSE The({
            IF ~plain.ok
            THEN fail(plain.err, <<"deriveKey", "decrypt">>)
            ELSE [ok |-> TRUE, val |-> plain.val, err |-> plain.err,
                  thrown |-> "", calls |-> <<"deriveKey", "decrypt">>]
            : plain \in { decompressData(uint8ArrayToString(decryptedBuffer.val), lz) } })
          : decryptedBuffer \in
              { AesGcmDecrypt(deriveKey(password, salt.val), iv.val, encryptedArray.val) } })
  IN The({
       IF ~payload.ok THEN fail("SyntaxError", <<>>)
       ELSE IF payload.val.v # 1 THEN fail("Unsupported encryption version", <<>>)
       ELSE The({ decoded(salt, iv, encryptedArray)
                  : salt \in { base64UrlToUint8Array(payload.val.s) },
                    iv \in { base64UrlToUint8Array(payload.val.i) },
                    encryptedArray \in { base64UrlToUint8Array(payload.val.d) } })
       : payload \in { JSONparseEnvelope(encryptedData) } })

(***************************************************************************)
(* Share URL builder, receiving path and link shortener:                   *)
(* js/share.js, ui/folders-ui.js                                           *)
(***************************************************************************)
\* A URL: everything before "#" (base and path, opaque), and the fragment.
NoUrl == [base |-> "", path |-> "", fragment |-> <<>>]

SHARE_BASE_URL == "https://danials.space/share.html"
ShortenEndpoint == "https://sorame.danials.space/link"

\* "data="
DataMarker == <<100, 97, 116, 97, 61>>

\* generateShareURL (share.js:17-33)
generateShareURL(folder, password, salt, iv, lzDefined) ==
  The({ IF ~encrypted.ok THEN Throw(encrypted.err)
        ELSE Ok([base |-> SHARE_BASE_URL, path |-> "",
                 fragment |->
                   DataMarker \o
                     StripTrailingEquals(ReplaceAll(ReplaceAll(
                       btoa(JSONstringifyEnvelope(encrypted.val)).val, 43, 45), 47, 95))])
        : encrypted \in { encrypt(JSONstringifyFolder(folder), password, salt, iv, lzDefined) } })

RetrieveFailed == "Failed to decrypt shared data. Check your password and try again."

\* retrieveSharedData (share.js:41-58)
retrieveSharedData(encryptedHash, password, lzDefined) ==
  IF encryptedHash = <<>> \/ password = <<>>
  THEN [ok |-> FALSE, val |-> <<>>, err |-> "Encrypted data and password are required",
        thrown |-> "", calls |-> <<>>]
  ELSE The({
    IF ~decrypted.ok
    THEN [ok |-> FALSE, val |-> <<>>, err |-> RetrieveFailed,
          thrown |-> decrypted.err, calls |-> decrypted.calls]
    \* JSON.parse(null) is null
    ELSE IF decrypted.err = "null"
    THEN [ok |-> TRUE, val |-> <<>>, err |-> "null", thrown |-> "",
          calls |-> decrypted.calls]
    ELSE The({
      IF ~folderData.ok
      THEN [ok |-> FALSE, val |-> <<>>, err |-> RetrieveFailed,
            thrown |-> folderData.err, calls |-> decrypted.calls]
      ELSE [ok |-> TRUE, val |-> folderData.val, err |-> "", thrown |-> "",
            calls |-> decrypted.calls]
      : folderData \in { JSONparseFolder(decrypted.val) } })
    : decrypted \in { decrypt(encryptedHash, password, lzDefined) } })

\* What the shortening service can answer to one request.
NetOutcomes == { "networkError", "status500", "badJson", "nullJson", "noShareId", "ok" }

\* shortenUrl sending its request to the URL it is given.
shortenUrlAtTarget(url, net) ==
  [request |-> [url |-> url.base, method |-> "POST", body |-> [data |-> url]],
   url |->
     IF net \in { "networkError", "status500", "badJson", "nullJson" }
     THEN url
     ELSE [base |-> "https://sorame.danials.space/link", fragment |-> <<>>,
           path |-> IF net = "ok" THEN "/abc123" ELSE "/undefined"]]

\* shortenUrl without the `!response.ok` check: the body of an error
\* response is read as if it were the answer.
shortenUrlAnyStatus(url, net) ==
  [request |-> [url |-> "https://sorame.danials.space/link", method |-> "POST",
                body |-> [data |-> url]],
   url |->
     IF net \in { "networkError", "badJson", "nullJson" }
     THEN url
     ELSE [base |-> "https://sorame.danials.space/link", fragment |-> <<>>,
           path |-> IF net = "ok" THEN "/abc123" ELSE "/undefined"]]

\* shortenUrl (folders-ui.js:752-774): the request it sends and the URL it returns.
shortenUrl(url, net) ==
  [request |-> [url |-> ShortenEndpoint, method |-> "POST", body |-> [data |-> url]],
   url |->
     IF net \in { "networkError", "status500", "badJson", "nullJson" }
     THEN url
     ELSE [base |-> ShortenEndpoint, fragment |-> <<>>,
           path |-> IF net = "ok" THEN "/abc123" ELSE "/undefined"]]

\* str.trim() (spaces only)
RECURSIVE Trim(_)
Trim(str) ==
  IF str # <<>> /\ str[1] = 32 THEN Trim(Tail(str))
  ELSE IF str # <<>> /\ str[Len(str)] = 32 THEN Trim(SubSeq(str, 1, Len(str) - 1))
  ELSE str

\* Inputs of the share flows.
Alphabet == { 65, 233, 955 }
Plaintexts == UNION { [1..n -> Alphabet] : n \in 0..MaxPlainLen }
\* "a", "b", "a " and "a\u0000"
Passwords == { <<97>>, <<98>>, <<97, 32>>, <<97, 0>> }
\* crypto.getRandomValues: the salt and IV of one encrypt call.
RandomValues ==
  { [salt |-> [j \in 1..SaltLen |-> (17 * j) % 256], iv |-> [j \in 1..IvLen |-> j]],
    [salt |-> [j \in 1..SaltLen |-> 255], iv |-> [j \in 1..IvLen |-> 251]] }
OtherVersions == { 0, 2 }

ShareFolders ==
  { [id |-> <<49>>, name |-> <<82>>, createdAt |-> <<84>>,
     tabs |-> << [t |-> <<65>>, u |-> <<104, 58, 47, 47, 97>>, f |-> <<>>] >>],
    [id |-> <<50>>, name |-> <<955>>, createdAt |-> <<84>>, tabs |-> <<>>] }

\* What can be handed to decrypt in place of the envelope JSON of e.
Tampers ==
  { [kind |-> k, v |-> 1] : k \in { "none", "data", "badChar", "truncated" } }
    \cup { [kind |-> "version", v |-> n] : n \in OtherVersions }

Tampered(e, how) ==
  IF how.kind = "data"
  THEN JSONstringifyEnvelope([e EXCEPT !.d = [@ EXCEPT ![1] = IF @ = 65 THEN 66 ELSE 65]])
  ELSE IF how.kind = "badChar"
  THEN JSONstringifyEnvelope([e EXCEPT !.d = [@ EXCEPT ![1] = 33]])
  ELSE IF how.kind = "truncated"
  THEN SubSeq(JSONstringifyEnvelope(e), 1, Len(JSONstringifyEnvelope(e)) - 1)
  ELSE JSONstringifyEnvelope([e EXCEPT !.v = how.v])

NoResultYet == [ok |-> FALSE, val |-> <<>>, err |-> "", thrown |-> "", calls |-> <<>>]
NoEncIn == [p |-> <<>>, pw |-> <<>>]
NoDecIn == [pw |-> <<>>, tamper |-> [kind |-> "none", v |-> 1]]
NoShare == [folder |-> <<>>, pw |-> <<>>, net |-> "", long |-> NoUrl,
            shareLink |-> NoUrl, originalLink |-> NoUrl,
            form |-> "block", result |-> "none", snackbar |-> ""]
NoPage == [typed |-> <<>>, ok |-> FALSE, folder |-> <<>>, snackbar |-> "",
           loading |-> "none", form |-> "block"]

\* A caller encrypts a text (encryption.js:136-173).
Encrypt ==
  /\ phase = "idle"
  /\ \E p \in Plaintexts, pw \in Passwords, rnd \in RandomValues :
       /\ encIn' = [p |-> p, pw |-> pw]
       /\ envelope' = encrypt(p, pw, rnd.salt, rnd.iv, LZString)
  /\ phase' = "encrypted"
  /\ UNCHANGED <<LZString, decIn, dec, share, requests, page>>
  /\ UNCHANGED <<storeVars, viewVars>>

\* A caller decrypts what encrypt returned, possibly altered on the way
\* (encryption.js:181-216).
Decrypt ==
  /\ phase = "encrypted"
  /\ envelope.ok
  /\ \E pw \in Passwords, how \in Tampers :
       /\ decIn' = [pw |-> pw, tamper |-> how]
       /\ dec' = decrypt(Tampered(envelope.val, how), pw, LZString)
  /\ phase' = "decrypted"
  /\ UNCHANGED <<LZString, encIn, envelope, share, requests, page>>
  /\ UNCHANGED <<storeVars, viewVars>>

\* The same through retrieveSharedData (share.js:41-58).
RetrieveSharedData ==
  /\ phase = "encrypted"
  /\ envelope.ok
  /\ \E pw \in Passwords, how \in Tampers :
       /\ decIn' = [pw |-> pw, tamper |-> how]
       /\ dec' = retrieveSharedData(Tampered(envelope.val, how), pw, LZString)
  /\ phase' = "retrieved"
  /\ UNCHANGED <<LZString, encIn, envelope, share, requests, page>>
  /\ UNCHANGED <<storeVars, viewVars>>

\* handleShareFolder (folders-ui.js:780-840): the share form is submitted.
handleShareFolder(folder, password, salt, iv, net, lzDefined) ==
  LET submitted == [NoShare EXCEPT !.folder = folder, !.pw = password, !.net = net]
  IN IF password = <<>>
     THEN [share |-> [submitted EXCEPT !.snackbar = "Please enter a password"],
           requests |-> {}]
     ELSE The({
       IF ~shareableUrl.ok
       THEN [share |-> [submitted EXCEPT !.snackbar = "Error generating shareable link"],
             requests |-> {}]
       ELSE The({ [share |-> [submitted EXCEPT !.long = shareableUrl.val,
                                               !.form = "none",
                                               !.shareLink = shortened.url,
                                               !.originalLink = shareableUrl.val,
                                               !.result = "block"],
                   requests |-> { shortened.request }]
                  : shortened \in { shortenUrl(shareableUrl.val, net) } })
       : shareableUrl \in { generateShareURL(folder, password, salt, iv, lzDefined) } })

HandleShareFolder ==
  /\ phase = "idle"
  /\ \E folder \in ShareFolders, password \in Passwords \cup { <<>> },
        rnd \in RandomValues, net \in NetOutcomes :
       LET r == handleShareFolder(folder, password, rnd.salt, rnd.iv, net, LZString)
       IN /\ share' = r.share
          /\ requests' = requests \cup r.requests
  /\ phase' = "shared"
  /\ UNCHANGED <<LZString, encIn, envelope, decIn, dec, page>>
  /\ UNCHANGED <<storeVars, viewVars>>

\* The submit listener of initSharePage (share.js:155-211), the page having
\* been opened at the generated share URL: window.location.hash is "#" and
\* the fragment.
initSharePageSubmit(hash, typed, lzDefined) ==
  LET submitted == [NoPage EXCEPT !.typed = typed]
  IN The({
       IF password = <<>>
       THEN [submitted EXCEPT !.snackbar = "Please enter the password"]
       ELSE The({
         IF decryptedData.ok
         THEN [submitted EXCEPT !.ok = TRUE, !.folder = decryptedData.val,
                                !.form = "none"]
         ELSE [submitted EXCEPT !.snackbar = decryptedData.err]
         : decryptedData \in
             { retrieveSharedData(SubSeq(hash, 2, Len(hash)), password, lzDefined) } })
       : password \in { Trim(typed) } })

SharePageSubmit ==
  /\ phase = "shared"
  /\ share.long # NoUrl
  /\ \E typed \in Passwords \cup { <<>> } :
       page' = initSharePageSubmit(<<35>> \o share.long.fragment, typed, LZString)
  /\ phase' = "viewed"
  /\ UNCHANGED <<LZString, encIn, envelope, decIn, dec, share, requests>>
  /\ UNCHANGED <<storeVars, viewVars>>

\* loadComponent (unnamed/part_002:17-37): the popup fetches one of its own
\* component files, `components/${componentName}.html`.
ComponentNames == { "components/share_folder_modal.html" }

loadComponent(componentName) ==
  [url |-> componentName, method |-> "GET", body |-> [data |-> NoUrl]]

LoadComponent ==
  /\ phase = "idle"
  /\ \E componentName \in ComponentNames :
       requests' = requests \cup { loadComponent(componentName) }
  /\ UNCHANGED <<LZString, phase, encIn, envelope, decIn, dec, share, page>>
  /\ UNCHANGED <<storeVars, viewVars>>

\* The popup or page is closed; the next flow starts in a fresh document.
Reset ==
  /\ phase # "idle"
  /\ phase' = "idle"
  /\ encIn' = NoEncIn
  /\ envelope' = NoResultYet
  /\ decIn' = NoDecIn
  /\ dec' = NoResultYet
  /\ share' = NoShare
  /\ page' = NoPage
  /\ requests' = {}
  /\ UNCHANGED LZString
  /\ UNCHANGED <<storeVars, viewVars>>

(***************************************************************************)
(* Folder dialogs of the popup (ui/folders-ui.js, context 1) and the       *)
(* folder preview page (folder-preview.js, context 2)                      *)
(***************************************************************************)
Popup == 1
Preview == 2

NoUi ==
  [shareFolderModal |-> "none", shareFolderId |-> NoId, shareResult |-> "none",
   confirmDialog |-> "none", confirmFor |-> NoId, confirmName |-> "",
   looking |-> {}, waiting |-> {}, answer |-> "", okNames |-> {},
   active |-> NoId, snackbar |-> "",
   opened |-> FALSE, listening |-> FALSE, pageFolderId |-> NoId,
   loadingContainer |-> "none", folderInfo |-> "none", tabList |-> "none",
   errorState |-> "", shownTabs |-> <<>>]

\* The number of failed storage calls among the calls of one handler.
Failures(oks) == Cardinality({ i \in DOMAIN oks : ~oks[i] })

\* folders.find((f) => f.id === folderId) || null
find(list, folderId) ==
  IF findIndex(list, folderId) = 0
  THEN Null
  ELSE FolderResult(list[findIndex(list, folderId)])

\* setLoading (folder preview): the spinner replaces the folder header and
\* the tab list, or gives way to them.
setLoading(u, isLoading) ==
  IF isLoading
  THEN [u EXCEPT !.loadingContainer = "flex", !.folderInfo = "none", !.tabList = "none"]
  ELSE [u EXCEPT !.loadingContainer = "none", !.folderInfo = "block", !.tabList = "block"]

\* showShareFolderModal: `const folder = folderService.getFolderById(folderId)`
\* is not awaited, so `folder` is a pending promise and `if (!folder) return`
\* never returns; the lookup it started still reloads `folders`.
showShareFolderModal(u, folderId) ==
  [u EXCEPT !.shareFolderModal = "flex", !.shareFolderId = folderId,
            !.shareResult = "none"]

ShowShareFolderModal ==
  /\ ui.confirmDialog = "none"
  /\ \E folderId \in KnownIds, ok \in BOOLEAN :
       /\ faults + Failures(<<ok>>) <= MaxFaults
       /\ faults' = faults + Failures(<<ok>>)
       /\ mem' = [mem EXCEPT ![Popup] = loadFolders(Popup, ok)]
       /\ ui' = showShareFolderModal(ui, folderId)
  /\ share' = [share EXCEPT !.result = "none"]
  /\ UNCHANGED <<stored, shared, pc, op, pending, ret, hist, now>>
  /\ UNCHANGED <<LZString, phase, encIn, envelope, decIn, dec, requests, page, fmt>>

\* hideShareFolderModal (folders-ui.js:718-725): the modal and the result
\* section are hidden and the form's fields are reset; the display of the
\* form itself is not touched.
HideShareFolderModal ==
  /\ ui.shareFolderModal = "flex"
  /\ ui' = [ui EXCEPT !.shareFolderModal = "none", !.shareResult = "none"]
  /\ share' = [share EXCEPT !.result = "none"]
  /\ UNCHANGED <<LZString, phase, encIn, envelope, decIn, dec, requests, page, fmt>>
  /\ UNCHANGED storeVars

\* The share form is submitted; it can be only while the modal shows it.
SubmitShareForm ==
  /\ ui.shareFolderModal = "flex"
  /\ share.form = "block"
  /\ HandleShareFolder

\* A dialog that shows the new message but goes on answering the caller
\* that was already waiting.
customConfirmFirstCaller(u, folderId, folderName) ==
  [u EXCEPT !.confirmName = folderName,
            !.confirmFor = IF u.waiting = {} THEN folderId ELSE @,
            !.confirmDialog = "flex",
            !.waiting = @ \cup { folderId }]

\* customConfirm (custom-confirm.js:79-98), the dialog being initialised:
\* the message is set, the one module-level `confirmPromiseResolve` is
\* overwritten with the new promise's resolver and the dialog is shown.
\* confirmFor is the caller that resolver belongs to, waiting the callers
\* whose promise is not resolved yet.
customConfirm(u, folderId, folderName) ==
  [u EXCEPT !.confirmName = folderName,
            !.confirmFor = folderId,
            !.confirmDialog = "flex",
            !.waiting = @ \cup { folderId }]

\* confirmDeleteFolder up to `await customConfirm(...)`: the folder is looked
\* up, and the dialog is shown only when it was found.
confirmDeleteFolder(u, list, folderId) ==
  IF find(list, folderId) = Null
  THEN u
  ELSE customConfirm(u, folderId, find(list, folderId).folder.name)

\* The delete button of a folder card is clicked (the dialog, while shown,
\* covers the list): confirmDeleteFolder starts and awaits getFolderById.
DeleteClicked ==
  /\ ui.confirmDialog = "none"
  /\ \E folderId \in KnownIds \ ui.looking :
       ui' = [ui EXCEPT !.looking = @ \cup { folderId }]
  /\ UNCHANGED <<storeVars, shareVars, fmt>>

\* getFolderById has answered one of the started calls, which runs on to
\* `await customConfirm(...)`.  Before initCustomConfirm has found the dialog
\* elements customConfirm returns Promise.resolve(false) and the caller
\* ends without deleting.
LookupDone ==
  /\ \E folderId \in ui.looking, ok \in BOOLEAN, initialised \in BOOLEAN :
       /\ faults + Failures(<<ok>>) <= MaxFaults
       /\ faults' = faults + Failures(<<ok>>)
       /\ mem' = [mem EXCEPT ![Popup] = loadFolders(Popup, ok)]
       /\ ui' = IF initialised
                THEN confirmDeleteFolder([ui EXCEPT !.looking = @ \ { folderId }],
                                         loadFolders(Popup, ok), folderId)
                ELSE [ui EXCEPT !.looking = @ \ { folderId }]
  /\ UNCHANGED <<stored, shared, pc, op, pending, ret, hist, now>>
  /\ UNCHANGED <<shareVars, fmt>>

ConfirmDeleteFolder ==
  /\ ui.confirmDialog = "none"
  /\ \E folderId \in KnownIds, ok \in BOOLEAN :
       /\ faults + Failures(<<ok>>) <= MaxFaults
       /\ faults' = faults + Failures(<<ok>>)
       /\ mem' = [mem EXCEPT ![Popup] = loadFolders(Popup, ok)]
       /\ ui' = confirmDeleteFolder(ui, loadFolders(Popup, ok), folderId)
  /\ UNCHANGED <<stored, shared, pc, op, pending, ret, hist, now>>
  /\ UNCHANGED <<shareVars, fmt>>

\* The dialog is answered: the caller whose resolver is held is resumed and
\* its confirmDeleteFolder runs on: deleteFolder (reload, splice, save),
\* renderFolderList (reload), snackbar.  answer and okNames record the
\* button clicked last and the folder names shown when OK was clicked.
ConfirmAnswer ==
  /\ ui.confirmDialog = "flex"
  /\ \E confirmed \in BOOLEAN, oks \in [1..3 -> BOOLEAN] :
       LET list == loadFolders(Popup, oks[1])
           idx == findIndex(list, ui.confirmFor)
           after == IF idx = 0 THEN list ELSE RemoveAt(list, idx)
           written == IF idx = 0 THEN stored ELSE saveFolders(after, oks[2])
       IN
         IF confirmed
         THEN /\ faults + Failures(oks) <= MaxFaults
              /\ faults' = faults + Failures(oks)
              /\ stored' = written
              /\ mem' = [mem EXCEPT ![Popup] = IF oks[3] THEN written ELSE after]
              /\ ui' = [ui EXCEPT !.confirmDialog = "none",
                                  !.waiting = @ \ { ui.confirmFor },
                                  !.answer = "ok",
                                  !.okNames = @ \cup { ui.confirmName },
                                  !.snackbar = "Folder deleted"]
         ELSE /\ oks = [i \in 1..3 |-> TRUE]
              /\ ui' = [ui EXCEPT !.confirmDialog = "none",
                                  !.waiting = @ \ { ui.confirmFor },
                                  !.answer = "cancel"]
              /\ UNCHANGED <<stored, mem, faults>>
  /\ UNCHANGED <<shared, pc, op, pending, ret, hist, now>>
  /\ UNCHANGED <<shareVars, fmt>>

\* viewFolderContents: an unknown folder is answered with a snackbar.
viewFolderContents(u, list, folderId) ==
  IF find(list, folderId) = Null
  THEN [u EXCEPT !.snackbar = "Folder not found"]
  ELSE [u EXCEPT !.active = folderId]

ViewFolderContents ==
  /\ ui.confirmDialog = "none"
  /\ \E folderId \in KnownIds, ok \in BOOLEAN :
       /\ faults + Failures(<<ok>>) <= MaxFaults
       /\ faults' = faults + Failures(<<ok>>)
       /\ mem' = [mem EXCEPT ![Popup] = loadFolders(Popup, ok)]
       /\ ui' = viewFolderContents(ui, loadFolders(Popup, ok), folderId)
  /\ UNCHANGED <<stored, shared, pc, op, pending, ret, hist, now>>
  /\ UNCHANGED <<shareVars, fmt>>

\* loadFolder (folder preview): the page is opened with or without a
\* folderId parameter; any failure ends in the "Folder Not Found" state.
loadFolder(u, list, hasId, folderId) ==
  IF ~hasId
  THEN [setLoading(u, FALSE) EXCEPT !.opened = TRUE, !.folderInfo = "none",
                                    !.errorState = "No folder ID provided"]
  ELSE IF find(list, folderId) = Null
  THEN [setLoading(u, FALSE) EXCEPT !.opened = TRUE, !.folderInfo = "none",
                                    !.errorState = "Folder not found"]
  ELSE [setLoading(u, FALSE) EXCEPT !.opened = TRUE, !.listening = TRUE,
                                    !.pageFolderId = folderId,
                                    !.shownTabs = find(list, folderId).folder.tabs]

LoadFolder ==
  /\ ~ui.opened
  /\ \E hasId \in BOOLEAN, folderId \in KnownIds, ok \in BOOLEAN :
       /\ ~hasId => (folderId = NoId /\ ok)
       /\ faults + Failures(<<ok>>) <= MaxFaults
       /\ faults' = faults + Failures(<<ok>>)
       /\ mem' = [mem EXCEPT ![Preview] =
                    IF hasId THEN loadFolders(Preview, ok) ELSE mem[Preview]]
       /\ ui' = loadFolder(ui, loadFolders(Preview, ok), hasId, folderId)
  /\ UNCHANGED <<stored, shared, pc, op, pending, ret, hist, now>>
  /\ UNCHANGED <<shareVars, fmt>>

\* removeTabFromFolder (folder preview with setLoading): setLoading(true),
\* getFolderById, `if (!folder || !folder.tabs) return`, updateFolder with the
\* filtered tabs, snackbar, getFolderById again, render, setLoading(false).
\* oks: the four storage calls (read, read, write, read).
RemoveTabFromFolder ==
  /\ ui.listening
  /\ \E tabIndex \in 1..Len(ui.shownTabs), oks \in [1..4 -> BOOLEAN] :
       LET folderId == ui.pageFolderId
           list1 == loadFolders(Preview, oks[1])
           folder == find(list1, folderId)
           updatedTabs ==
             IF folder = Null THEN <<>>
             ELSE SelectSeq([i \in 1..Len(folder.folder.tabs) |->
                               [at |-> i, tab |-> folder.folder.tabs[i]]],
                            LAMBDA e : e.at # tabIndex)
           list2 == IF oks[2] THEN stored ELSE list1
           idx2 == findIndex(list2, folderId)
           updated ==
             IF idx2 = 0 THEN list2
             ELSE [list2 EXCEPT ![idx2] =
                     Merge(list2[idx2],
                           [tabs |-> [i \in 1..Len(updatedTabs) |-> updatedTabs[i].tab]])]
           written == IF idx2 = 0 THEN stored ELSE saveFolders(updated, oks[3])
           list3 == IF oks[4] THEN written ELSE updated
           updatedFolder == find(list3, folderId)
       IN
         IF folder = Null
         THEN /\ oks[2] /\ oks[3] /\ oks[4]
              /\ faults + Failures(oks) <= MaxFaults
              /\ faults' = faults + Failures(oks)
              /\ mem' = [mem EXCEPT ![Preview] = list1]
              /\ ui' = setLoading(ui, TRUE)
              /\ UNCHANGED stored
         ELSE /\ faults + Failures(oks) <= MaxFaults
              /\ faults' = faults + Failures(oks)
              /\ stored' = written
              /\ mem' = [mem EXCEPT ![Preview] = list3]
              /\ ui' = [setLoading(ui, FALSE) EXCEPT
                          !.snackbar = "Tab removed from folder",
                          !.shownTabs = IF updatedFolder = Null
                                        THEN ui.shownTabs
                                        ELSE updatedFolder.folder.tabs]
  /\ UNCHANGED <<shared, pc, op, pending, ret, hist, now>>
  /\ UNCHANGED <<shareVars, fmt>>

(***************************************************************************)
(* Tab formatting: popup.js (the single-file popup) and                    *)
(* js/tabs-formatter.js with ui/tabs-ui.js (the modular popup).            *)
(* A text is a sequence of one-character strings.                          *)
(***************************************************************************)
MaxListed == 3

NewLine == <<"\n">>

TitlePlaceholder == <<"{", "{", "t", "i", "t", "l", "e", "}", "}">>
UrlPlaceholder == <<"{", "{", "u", "r", "l", "}", "}">>
IndexPlaceholder == <<"{", "{", "@", "i", "n", "d", "e", "x", "}", "}">>
DomainIndexPlaceholder == <<"{", "{", "@", "d", "o", "m", "a", "i", "n", "I", "n", "d", "e", "x", "}", "}">>

\* The characters \w matches.
WordChars ==
  { "a", "b", "c", "d", "e", "f", "g", "h", "i", "j", "k", "l", "m", "n",
    "o", "p", "q", "r", "s", "t", "u", "v", "w", "x", "y", "z", "A", "B",
    "C", "D", "E", "F", "G", "H", "I", "J", "K", "L", "M", "N", "O", "P",
    "Q", "R", "S", "T", "U", "V", "W", "X", "Y", "Z", "0", "1", "2", "3",
    "4", "5", "6", "7", "8", "9", "_" }

\* String(n)
RECURSIVE NumText(_)
NumText(n) ==
  IF n < 10 THEN <<<<"0", "1", "2", "3", "4", "5", "6", "7", "8", "9">>[n + 1]>>
  ELSE NumText(n \div 10) \o NumText(n % 10)

StartsWithAt(text, i, pat) ==
  /\ i + Len(pat) - 1 <= Len(text)
  /\ SubSeq(text, i, i + Len(pat) - 1) = pat

\* text.indexOf(pat, from); 0 stands for -1
IndexOf(text, pat, from) ==
  IF \E i \in from..Len(text) : StartsWithAt(text, i, pat)
  THEN CHOOSE i \in from..Len(text) :
         /\ StartsWithAt(text, i, pat)
         /\ \A j \in from..(i - 1) : ~StartsWithAt(text, j, pat)
  ELSE 0

\* text.includes(pat)
Includes(text, pat) == pat = <<>> \/ IndexOf(text, pat, 1) # 0

\* The replacement string of String.prototype.replace for a match of pat:
\* $$ is a dollar sign and $& the match (the patterns have no capture
\* groups; the other dollar patterns do not occur in the model's texts).
RECURSIVE ExpandFrom(_, _, _)
ExpandFrom(replacement, k, pat) ==
  IF k > Len(replacement) THEN <<>>
  ELSE IF replacement[k] = "$" /\ k < Len(replacement)
            /\ replacement[k + 1] \in { "$", "&" }
  THEN (IF replacement[k + 1] = "$" THEN <<"$">> ELSE pat)
         \o ExpandFrom(replacement, k + 2, pat)
  ELSE <<replacement[k]>> \o ExpandFrom(replacement, k + 1, pat)

\* text.replace(/pat/g, replacement) for a pattern that matches only itself
RECURSIVE ReplaceFrom(_, _, _, _)
ReplaceFrom(text, i, pat, replacement) ==
  IF i > Len(text) THEN <<>>
  ELSE IF StartsWithAt(text, i, pat)
  THEN ExpandFrom(replacement, 1, pat)
         \o ReplaceFrom(text, i + Len(pat), pat, replacement)
  ELSE <<text[i]>> \o ReplaceFrom(text, i + 1, pat, replacement)

replace(text, pat, replacement) == ReplaceFrom(text, 1, pat, replacement)

\* text.replace(/ +/g, " ")
RECURSIVE CollapseFrom(_, _)
CollapseFrom(text, i) ==
  IF i > Len(text) THEN <<>>
  ELSE IF text[i] = " " /\ i > 1 /\ text[i - 1] = " "
  THEN CollapseFrom(text, i + 1)
  ELSE <<text[i]>> \o CollapseFrom(text, i + 1)

\* "Clean up any artifacts from the template if a field was omitted":
\* .replace(/\[\]/g, "").replace(/\(\)/g, "").replace(/ - $/g, "")
\* .replace(/^ - /g, "").replace(/ +/g, " ")
CleanUp(text) ==
  The({ The({ CollapseFrom(IF StartsWithAt(cut, 1, <<" ", "-", " ">>)
                           THEN SubSeq(cut, 4, Len(cut))
                           ELSE cut, 1) :
              cut \in { IF Len(bare) >= 3 /\ StartsWithAt(bare, Len(bare) - 2, <<" ", "-", " ">>)
                        THEN SubSeq(bare, 1, Len(bare) - 3)
                        ELSE bare } }) :
        bare \in { replace(replace(text, <<"[", "]">>, <<>>), <<"(", ")">>, <<>>) } })

\* separator.join(pieces)
RECURSIVE Join(_, _)
Join(pieces, separator) ==
  IF Len(pieces) = 0 THEN <<>>
  ELSE IF Len(pieces) = 1 THEN pieces[1]
  ELSE pieces[1] \o separator \o Join(Tail(pieces), separator)

\* new URL(url).hostname for the URLs of the model: `scheme://host/path`
\* and `scheme:rest` (about:blank); a text without a scheme, or an http(s)
\* URL without a host, does not parse.
Hostname(url) ==
  The({ IF colon <= 1 THEN Throw("TypeError: Invalid URL")
        ELSE IF ~StartsWithAt(url, colon + 1, <<"/", "/">>) THEN Ok(<<>>)
        ELSE The({ IF stop = colon + 3 /\ SubSeq(url, 1, colon - 1)
                          \in { <<"h", "t", "t", "p">>, <<"h", "t", "t", "p", "s">> }
                   THEN Throw("TypeError: Invalid URL")
                   ELSE Ok(SubSeq(url, colon + 3, stop - 1)) :
                   stop \in { IF IndexOf(url, <<"/">>, colon + 3) = 0
                              THEN Len(url) + 1
                              ELSE IndexOf(url, <<"/">>, colon + 3) } }) :
        colon \in { IndexOf(url, <<":">>, 1) } })

\* [...new Set(xs)]: the distinct elements in the order of their first occurrence
RECURSIVE Uniq(_)
Uniq(xs) ==
  IF xs = <<>> THEN <<>>
  ELSE The({ IF \E k \in 1..Len(r) : r[k] = xs[Len(xs)] THEN r
             ELSE Append(r, xs[Len(xs)]) :
             r \in { Uniq(SubSeq(xs, 1, Len(xs) - 1)) } })

\* [...tabs].sort((a, b) => a.index - b.index): a stable sort
RECURSIVE InsertByIndex(_, _)
InsertByIndex(sorted, tab) ==
  IF sorted = <<>> THEN <<tab>>
  ELSE IF sorted[Len(sorted)].index <= tab.index THEN Append(sorted, tab)
  ELSE Append(InsertByIndex(SubSeq(sorted, 1, Len(sorted) - 1), tab),
              sorted[Len(sorted)])

RECURSIVE SortByIndex(_)
SortByIndex(tabs) ==
  IF tabs = <<>> THEN <<>>
  ELSE InsertByIndex(SortByIndex(SubSeq(tabs, 1, Len(tabs) - 1)), tabs[Len(tabs)])

(***************************************************************************)
(* popup.js                                                                *)
(***************************************************************************)
\* extractDomain (popup.js:44-51): the hostname, or the url itself when it
\* does not parse.
PopupExtractDomain(url) == IF Hostname(url).ok THEN Hostname(url).val ELSE url

\* processTabs (popup.js:83-111): sort, then Object.values(domainGroups).flat();
\* the keys of domainGroups are host names, which an object lists in the
\* order of their insertion.
PopupProcessTabs(tabs, o) ==
  The({ IF o.groupByDomain
        THEN Flatten([k \in 1..Len(Uniq([i \in 1..Len(sorted) |->
                                           PopupExtractDomain(sorted[i].url)])) |->
                        SelectSeq(sorted,
                          LAMBDA tab :
                            PopupExtractDomain(tab.url)
                              = Uniq([i \in 1..Len(sorted) |->
                                        PopupExtractDomain(sorted[i].url)])[k])])
        ELSE sorted :
        sorted \in { IF o.sortByPosition THEN SortByIndex(tabs) ELSE tabs } })

DefaultFormatTemplate ==
  <<"-", " ", "[">> \o TitlePlaceholder \o <<"]", "(">> \o UrlPlaceholder \o <<")">>
DefaultPlainTextTemplate == TitlePlaceholder \o <<" ", "-", " ">> \o UrlPlaceholder

\* One tab's text (popup.js:158-179 and 191-212).  includeTitles and
\* includeUrls are the values read from the toggles at the start of
\* formatTabs; {{@domainIndex}} is replaced in the grouped branch only.
PopupTabText(template, tab, o, index, domainIndex) ==
  CleanUp(
    The({ IF o.groupByDomain
          THEN replace(indexed, DomainIndexPlaceholder, NumText(domainIndex))
          ELSE indexed :
          indexed \in
            { replace(
                replace(
                  replace(template, TitlePlaceholder,
                          IF o.includeTitles THEN tab.title ELSE <<>>),
                  UrlPlaceholder, IF o.includeUrls THEN tab.url ELSE <<>>),
                IndexPlaceholder, NumText(index)) } }))

\* The forEach of the grouped branch (popup.js:141-183) from tab k on.
\* current: the domain of the previous tab (none before the first tab).
RECURSIVE PopupGroupedFrom(_, _, _, _, _, _)
PopupGroupedFrom(tabs, k, current, domainTabIndex, template, o) ==
  IF k > Len(tabs) THEN <<>>
  ELSE The({ IF current.known /\ current.domain = domain
             THEN PopupTabText(template, tabs[k], o, k, domainTabIndex + 1)
                    \o NewLine
                    \o PopupGroupedFrom(tabs, k + 1, current, domainTabIndex + 1,
                                        template, o)
             ELSE (IF current.known THEN NewLine \o NewLine ELSE <<>>)
                    \o (IF o.formatMarkdown THEN <<"#", "#", " ">> ELSE <<>>)
                    \o domain \o NewLine \o NewLine
                    \o PopupTabText(template, tabs[k], o, k, 1)
                    \o NewLine
                    \o PopupGroupedFrom(tabs, k + 1,
                                        [known |-> TRUE, domain |-> domain], 1,
                                        template, o) :
             domain \in { PopupExtractDomain(tabs[k].url) } })

\* formatTabs (popup.js:114-217); the template is
\* `formatTemplateInput.value || "- [{{title}}]({{url}})"` or its plain twin.
PopupFormatTabs(tabs, o) ==
  IF tabs = <<>> THEN <<>>
  ELSE The({ IF o.groupByDomain
             THEN PopupGroupedFrom(PopupProcessTabs(tabs, o), 1,
                                   [known |-> FALSE, domain |-> <<>>], 0, template, o)
             ELSE The({ Join([k \in 1..Len(processed) |->
                                PopupTabText(template, processed[k], o, k, 0)],
                             NewLine) :
                        processed \in { PopupProcessTabs(tabs, o) } }) :
             template \in { IF o.template # <<>> THEN o.template
                            ELSE IF o.formatMarkdown THEN DefaultFormatTemplate
                            ELSE DefaultPlainTextTemplate } })

(***************************************************************************)
(* js/utils.js, js/tabs-formatter.js, ui/tabs-ui.js                        *)
(***************************************************************************)
\* The properties every object literal inherits from Object.prototype, as
\* `{ title, url }[key]` finds them, and the text they are rendered as.
InheritedKeys ==
  { <<"c", "o", "n", "s", "t", "r", "u", "c", "t", "o", "r">>, <<"t", "o", "S", "t", "r", "i", "n", "g">>, <<"v", "a", "l", "u", "e", "O", "f">>,
    <<"h", "a", "s", "O", "w", "n", "P", "r", "o", "p", "e", "r", "t", "y">>,
    <<"i", "s", "P", "r", "o", "t", "o", "t", "y", "p", "e", "O", "f">>,
    <<"p", "r", "o", "p", "e", "r", "t", "y", "I", "s", "E", "n", "u", "m", "e", "r", "a", "b", "l", "e">>,
    <<"t", "o", "L", "o", "c", "a", "l", "e", "S", "t", "r", "i", "n", "g">> }

\* The end of the \w+ run that starts at position i.
RECURSIVE WordEnd(_, _)
WordEnd(text, i) ==
  IF i <= Len(text) /\ text[i] \in WordChars THEN WordEnd(text, i + 1) ELSE i

\* formatWithTemplate (utils.js:122-128):
\* template.replace(/\{\{(\w+)\}\}/g, (match, key) =>
\*   data[key] !== undefined ? data[key] : match)
RECURSIVE FormatFrom(_, _, _)
FormatFrom(template, i, data) ==
  IF i > Len(template) THEN <<>>
  ELSE The({ IF /\ StartsWithAt(template, i, <<"{", "{">>)
                /\ stop > i + 2
                /\ StartsWithAt(template, stop, <<"}", "}">>)
             THEN The({ (CASE key = <<"t", "i", "t", "l", "e">> -> data.title
                           [] key = <<"u", "r", "l">> -> data.url
                           [] key \in InheritedKeys ->
                                <<"f", "u", "n", "c", "t", "i", "o", "n", " ">>
                                  \o (IF key = <<"c", "o", "n", "s", "t", "r", "u", "c", "t", "o", "r">> THEN <<"O", "b", "j", "e", "c", "t">> ELSE key)
                                  \o <<"(", ")", " ", "{", " ", "[", "n", "a", "t", "i", "v", "e", " ", "c", "o", "d", "e", "]", " ", "}">>
                           [] OTHER -> SubSeq(template, i, stop + 1))
                          \o FormatFrom(template, stop + 2, data) :
                        key \in { SubSeq(template, i + 2, stop - 1) } })
             ELSE <<template[i]>> \o FormatFrom(template, i + 1, data) :
             stop \in { WordEnd(template, i + 2) } })

formatWithTemplate(template, data) ==
  IF template = <<>> THEN <<>> ELSE FormatFrom(template, 1, data)

\* extractDomain (tabs-formatter.js:12-19): the hostname, or "" when the
\* url does not parse.
extractDomain(url) == IF Hostname(url).ok THEN Hostname(url).val ELSE <<>>

\* processTabs (tabs-formatter.js:27-69) as copyAllTabs calls it: no
\* selection filter; with groupByDomain the result is a list of
\* { domain, tabs } groups, else the list of tabs.
processTabs(tabs, o) ==
  The({ IF o.groupByDomain
        THEN [grouped |-> TRUE,
              items |->
                [k \in 1..Len(Uniq([i \in 1..Len(sorted) |->
                                      extractDomain(sorted[i].url)])) |->
                   The({ [domain |-> domain,
                          tabs |-> SelectSeq(sorted,
                                     LAMBDA tab : extractDomain(tab.url) = domain)] :
                         domain \in { Uniq([i \in 1..Len(sorted) |->
                                              extractDomain(sorted[i].url)])[k] } })]]
        ELSE [grouped |-> FALSE, items |-> sorted] :
        sorted \in { IF o.sortByPosition THEN SortByIndex(tabs) ELSE tabs } })

\* formatSingleTab (tabs-formatter.js:143-168)
formatSingleTab(tab, includeTitles, formatMarkdown, formatTemplate, plainTextTemplate) ==
  IF ~includeTitles
  THEN (IF formatMarkdown THEN <<"<">> \o tab.url \o <<">">> ELSE tab.url)
  ELSE IF formatMarkdown
  THEN formatWithTemplate(formatTemplate, [title |-> tab.title, url |-> tab.url])
  ELSE formatWithTemplate(plainTextTemplate, [title |-> tab.title, url |-> tab.url])

\* formatTabs (tabs-formatter.js:77-131); processed is what processTabs
\* returned.  In the regular branch a { domain, tabs } group is read as a
\* tab: `tab.title || ""`, `tab.url || ""`.
formatTabs(processed, o) ==
  IF processed.items = <<>> THEN <<>>
  ELSE IF ~o.includeTitles THEN <<>>
  ELSE IF o.groupByDomain /\ processed.grouped /\ processed.items[1].domain # <<>>
  THEN Join([g \in 1..Len(processed.items) |->
               (IF o.formatMarkdown THEN <<"#", "#", " ">> ELSE <<>>)
                 \o (IF processed.items[g].domain = <<>>
                     THEN <<"U", "n", "k", "n", "o", "w", "n", " ", "D", "o", "m", "a", "i", "n">>
                     ELSE processed.items[g].domain)
                 \o NewLine \o NewLine
                 \o Join([k \in 1..Len(processed.items[g].tabs) |->
                            formatSingleTab(processed.items[g].tabs[k], o.includeTitles,
                                            o.formatMarkdown, o.template, o.template)],
                         NewLine)],
            NewLine \o NewLine)
  ELSE Join([k \in 1..Len(processed.items) |->
               formatSingleTab(IF processed.grouped
                               THEN [title |-> <<>>, url |-> <<>>]
                               ELSE processed.items[k],
                               o.includeTitles, o.formatMarkdown, o.template, o.template)],
            NewLine)

(***************************************************************************)
(* The formatter's inputs                                                  *)
(***************************************************************************)

\* Open tabs as chrome.tabs.query returns them; one is a documentation page
\* titled "f()".
OpenTabs ==
  { [id |-> 1, index |-> 0, title |-> <<"A">>, 
       url |-> <<"h", "t", "t", "p", "s", ":", "/", "/", "a", ".", "c", "o", "m">>],
    [id |-> 2, index |-> 1, title |-> <<"B">>, 
       url |-> <<"h", "t", "t", "p", "s", ":", "/", "/", "b", ".", "c", "o", "m">>],
    [id |-> 3, index |-> 2, title |-> <<"f", "(", ")">>, 
       url |-> <<"h", "t", "t", "p", "s", ":", "/", "/", "a", ".", "c", "o", "m", "/", "x">>],
    [id |-> 4, index |-> 3, title |-> <<"D">>, 
       url |-> <<"a", "b", "o", "u", "t", ":", "b", "l", "a", "n", "k">>] }

\* The tabs handed to the formatter: all tabs or the selected ones, in any order.
TabSelections ==
  { s \in UNION { [1..n -> OpenTabs] : n \in 0..MaxListed } :
      \A i, j \in 1..Len(s) : i # j => s[i] # s[j] }

IndexTemplate ==
  IndexPlaceholder \o <<"/">> \o DomainIndexPlaceholder \o <<" ">> \o UrlPlaceholder
FixedTemplate == <<"T", "a", "b", ":", " ", " ", "x">>

\* What the template input can hold (empty: the field was cleared).
Templates ==
  { <<>>, DefaultFormatTemplate, DefaultPlainTextTemplate, IndexTemplate,
    FixedTemplate }

NoFmt ==
  [tabs |-> <<>>,
   o |-> [includeTitles |-> TRUE, includeUrls |-> TRUE, formatMarkdown |-> TRUE,
          groupByDomain |-> FALSE, sortByPosition |-> FALSE, template |-> <<>>],
   out |-> [by |-> "none", text |-> <<>>, includeUrlsChecked |-> FALSE,
            placed |-> FALSE, snackbar |-> ""]]

\* The single-file popup formats the tabs (Copy all / Copy selected).  "If
\* neither title nor URL is selected, default to including URLs": the toggle
\* is checked after includeUrls has been read.
PopupFormat ==
  /\ fmt.out.by = "none"
  /\ fmt' = [fmt EXCEPT !.out =
               [by |-> "popup", text |-> PopupFormatTabs(fmt.tabs, fmt.o),
                includeUrlsChecked |->
                  IF ~fmt.o.includeTitles /\ ~fmt.o.includeUrls THEN TRUE
                  ELSE fmt.o.includeUrls,
                placed |-> FALSE, snackbar |-> ""]]
  /\ UNCHANGED <<storeVars, shareVars, ui>>

\* copyTextToClipboard (clipboard.js:57-126), run by the background script:
\* the text is placed on the clipboard when it was written to storage, a
\* tab that may be scripted exists and the injected script ran; every
\* failure ends in a badge or a log line, and nothing is returned.
copyTextToClipboard(saved, usableTab, injected) ==
  saved /\ usableTab /\ injected

\* copyToClipboard (clipboard.js:13-51): navigator.clipboard.writeText, and
\* when it rejects or throws, a "copyToClipboard" message to the background
\* script, whose listener (background.js:311-317) calls copyTextToClipboard
\* and at once answers { success: true }.  `resolved`: the promise was
\* resolved, not rejected; `placed`: the text is on the clipboard.
copyToClipboard(api, lastError, saved, usableTab, injected) ==
  IF api THEN [resolved |-> TRUE, placed |-> TRUE]
  ELSE IF lastError THEN [resolved |-> FALSE, placed |-> FALSE]
  ELSE [resolved |-> TRUE,
        placed |-> copyTextToClipboard(saved, usableTab, injected)]

\* copyAllTabs (tabs-ui.js:736-760): processTabs, then formatTabs, then
\* copyToClipboard and the snackbar; the modular popup has no include-URLs
\* toggle.
CopyAllTabs ==
  /\ fmt.out.by = "none"
  /\ ~fmt.o.includeUrls
  /\ \E formattedText \in { formatTabs(processTabs(fmt.tabs, fmt.o), fmt.o) } :
       \E api, lastError, saved, usableTab, injected \in BOOLEAN :
         \E copied \in { copyToClipboard(api, lastError, saved, usableTab, injected) } :
           fmt' = [fmt EXCEPT !.out =
                     [by |-> "module",
                      text |-> formattedText,
                      includeUrlsChecked |-> FALSE,
                      placed |-> copied.placed,
                      snackbar |-> IF copied.resolved
                                   THEN "All tabs copied to clipboard"
                                   ELSE "Error copying tabs"]]
  /\ UNCHANGED <<storeVars, shareVars, ui>>

ViewIdle == ui = NoUi /\ fmt = NoFmt

(***************************************************************************)
(* Tab rows of a folder shown in the popup (ui/folders-ui.js): the remove  *)
(* button of a row and "add tabs", each split at its awaits                *)
(***************************************************************************)
\* The tabs of the folder on view when the popup opens.
SavedTabs ==
  << [t |-> "X", u |-> "https://x.com", f |-> ""],
     [t |-> "Y", u |-> "https://y.com", f |-> ""] >>

\* removeTabFromFolder up to its second await: a row's remove button is
\* clicked, getFolderById answers, `updatedTabs` is the folder's tabs
\* without the one at tabIndex, and updateFolder is called.
RemoveLookup(t) ==
  /\ pc[t] = "idle"
  /\ \E tabIndex \in 1..Len(ui.shownTabs), ok \in BOOLEAN :
       LET c == CtxOf(t)
           list == loadFolders(c, ok)
           folder == find(list, ui.active)
       IN
         /\ ~ok => faults < MaxFaults
         /\ faults' = IF ok THEN faults ELSE faults + 1
         /\ mem' = [mem EXCEPT ![c] = list]
         /\ IF folder = Null
            THEN UNCHANGED <<pc, op>>
            ELSE /\ pc' = [pc EXCEPT ![t] = "found"]
                 /\ op' = [op EXCEPT ![t] =
                             [NoOp EXCEPT
                                !.name = "update",
                                !.id = ui.active,
                                !.tabIndex = tabIndex,
                                !.folder = folder.folder,
                                !.updates =
                                  [tabs |->
                                     IF tabIndex <= Len(folder.folder.tabs)
                                     THEN RemoveAt(folder.folder.tabs, tabIndex)
                                     ELSE folder.folder.tabs]]]
  /\ UNCHANGED <<stored, shared, pending, ret, hist, now>>
  /\ UNCHANGED <<shareVars, viewVars>>

\* updateFolder up to `await saveFolders()`: the list is reloaded, the
\* folder is found again and its tabs are replaced by `updatedTabs`.
RemoveUpdate(t) ==
  /\ pc[t] = "found"
  /\ \E ok \in BOOLEAN :
       LET c == CtxOf(t)
           list == loadFolders(c, ok)
       IN
         /\ ~ok => faults < MaxFaults
         /\ faults' = IF ok THEN faults ELSE faults + 1
         /\ IF findIndex(list, op[t].id) = 0
            THEN /\ mem' = [mem EXCEPT ![c] = list]
                 /\ ret' = [ret EXCEPT ![t] = Null]
                 /\ pc' = [pc EXCEPT ![t] = "done"]
                 /\ UNCHANGED pending
            ELSE /\ mem' = [mem EXCEPT ![c] = Apply(list, op[t])]
                 /\ pending' = [pending EXCEPT ![t] = Apply(list, op[t])]
                 /\ pc' = [pc EXCEPT ![t] = "save"]
                 /\ UNCHANGED ret
  /\ UNCHANGED <<stored, shared, op, hist, now>>
  /\ UNCHANGED <<shareVars, viewVars>>

\* addSelectedTabsToFolder up to `await saveFolders()` of addTabsToFolder:
\* getFolderById, the tab query, then reload and append.  oks: the two reads.
AddTabs(t) ==
  /\ pc[t] = "idle"
  /\ \E tl \in TabLists \ { <<>> }, oks \in [1..2 -> BOOLEAN] :
       LET c == CtxOf(t)
           list1 == loadFolders(c, oks[1])
           list2 == IF oks[2] THEN stored ELSE list1
           o == [NoOp EXCEPT !.name = "addTabs", !.id = ui.active, !.tabs = tl]
       IN
         /\ faults + Failures(oks) <= MaxFaults
         /\ faults' = faults + Failures(oks)
         /\ find(list1, ui.active) # Null
         /\ findIndex(list2, ui.active) # 0
         /\ Len(Apply(list2, o)[findIndex(list2, ui.active)].tabs) <= MaxTabs + 2
         /\ op' = [op EXCEPT ![t] = o]
         /\ mem' = [mem EXCEPT ![c] = Apply(list2, o)]
         /\ pending' = [pending EXCEPT ![t] = Apply(list2, o)]
         /\ pc' = [pc EXCEPT ![t] = "save"]
  /\ UNCHANGED <<stored, shared, ret, hist, now>>
  /\ UNCHANGED <<shareVars, viewVars>>

\* The rest of either handler after the store call returned: the snackbar,
\* and viewFolderContents (rows drawn anew) after a removal or
\* renderFolderList after an addition; both reload the list.
Rendered(t) ==
  /\ pc[t] = "done"
  /\ \E ok \in BOOLEAN :
       LET list == loadFolders(CtxOf(t), ok)
           folder == find(list, op[t].id)
       IN
         /\ ~ok => faults < MaxFaults
         /\ faults' = IF ok THEN faults ELSE faults + 1
         /\ mem' = [mem EXCEPT ![CtxOf(t)] = list]
         /\ ui' = IF op[t].name # "update"
                  THEN [ui EXCEPT !.snackbar = "Added tabs"]
                  ELSE IF folder = Null
                  THEN viewFolderContents(ui, list, op[t].id)
                  ELSE [viewFolderContents(
                          [ui EXCEPT !.snackbar = "Tab removed from folder"],
                          list, op[t].id)
                          EXCEPT !.shownTabs = folder.folder.tabs]
  /\ pc' = [pc EXCEPT ![t] = "idle"]
  /\ op' = [op EXCEPT ![t] = NoOp]
  /\ pending' = [pending EXCEPT ![t] = <<>>]
  /\ ret' = [ret EXCEPT ![t] = NoResult]
  /\ hist' = [hist EXCEPT ![t] = NoHist]
  /\ UNCHANGED <<stored, shared, now>>
  /\ UNCHANGED <<shareVars, fmt>>

ShareIdle ==
  /\ phase = "idle"
  /\ encIn = NoEncIn
  /\ envelope = NoResultYet
  /\ decIn = NoDecIn
  /\ dec = NoResultYet
  /\ share = NoShare
  /\ requests = {}
  /\ page = NoPage

StoreIdle ==
  /\ stored = <<>>
  /\ mem = [c \in Contexts |-> <<>>]
  /\ pc = [t \in Tasks |-> "idle"]
  /\ op = [t \in Tasks |-> NoOp]
  /\ pending = [t \in Tasks |-> <<>>]
  /\ ret = [t \in Tasks |-> NoResult]
  /\ hist = [t \in Tasks |-> NoHist]
  /\ faults = 0
  /\ now = 0

ShareInit ==
  /\ ViewIdle
  /\ LZString \in BOOLEAN
  /\ ShareIdle
  /\ StoreIdle
  /\ shared = TRUE

ShareNext ==
  \/ Encrypt
  \/ Decrypt
  \/ RetrieveSharedData
  \/ HandleShareFolder
  \/ SharePageSubmit
  \/ LoadComponent
  \/ Reset

SpecShare == ShareInit /\ [][ShareNext]_vars

StoreInit ==
  /\ ViewIdle
  /\ StoreIdle
  /\ shared \in BOOLEAN
  /\ ShareIdle
  /\ LZString = TRUE

StoreNext ==
  \/ \E t \in Tasks : Begin(t)
  \/ \E t \in Tasks : SaveDone(t)
  \/ \E t \in Tasks : Return(t)
  \/ Tick

SpecStore == StoreInit /\ [][StoreNext]_vars

\* The store used by one caller at a time: the second task never starts.
SoloInit ==
  /\ ViewIdle
  /\ ShareIdle
  /\ LZString = TRUE
  /\ stored = <<>>
  /\ mem = [c \in Contexts |-> <<>>]
  /\ shared = TRUE
  /\ pc = [t \in Tasks |-> IF t = 1 THEN "idle" ELSE "off"]
  /\ op = [t \in Tasks |-> NoOp]
  /\ pending = [t \in Tasks |-> <<>>]
  /\ ret = [t \in Tasks |-> NoResult]
  /\ hist = [t \in Tasks |-> NoHist]
  /\ faults = 0
  /\ now = 0

SpecStoreSolo == SoloInit /\ [][StoreNext]_vars

\* Two contexts (the popup and a folder page) use the store at once, and
\* storage serves every request.
RaceInit ==
  /\ ViewIdle
  /\ ShareIdle
  /\ LZString = TRUE
  /\ stored = <<>>
  /\ mem = [c \in Contexts |-> <<>>]
  /\ shared = FALSE
  /\ pc = [t \in Tasks |-> "idle"]
  /\ op = [t \in Tasks |-> NoOp]
  /\ pending = [t \in Tasks |-> <<>>]
  /\ ret = [t \in Tasks |-> NoResult]
  /\ hist = [t \in Tasks |-> NoHist]
  /\ faults = MaxFaults
  /\ now = 0

\* In both contexts folders are created.
RaceNext ==
  \/ \E t \in Tasks : Begin(t) /\ op'[t].name = "create"
  \/ \E t \in Tasks : SaveDone(t)
  \/ \E t \in Tasks : Return(t)
  \/ Tick

SpecStoreRace == RaceInit /\ [][RaceNext]_vars

\* A folder as createFolder leaves it in storage.
FolderOf(clock, tabs) ==
  [id |-> generateUniqueId(clock, 1), name |-> "Research", createdAt |-> clock,
   tabs |-> CompactAll(tabs)]

\* The lists storage can hold when the popup opens.
StoredLists ==
  { <<>> } \cup { <<FolderOf(0, tl)>> : tl \in TabLists }
    \cup { <<FolderOf(0, tl), FolderOf(1, tl2)>> : tl \in TabLists, tl2 \in TabLists }

\* The popup has rendered the stored folder list; the preview page is not open.
UiInit ==
  /\ ViewIdle
  /\ ShareIdle
  /\ LZString = TRUE
  /\ stored \in StoredLists
  /\ mem = [c \in Contexts |-> IF c = Popup THEN stored ELSE <<>>]
  /\ shared = FALSE
  /\ pc = [t \in Tasks |-> "off"]
  /\ op = [t \in Tasks |-> NoOp]
  /\ pending = [t \in Tasks |-> <<>>]
  /\ ret = [t \in Tasks |-> NoResult]
  /\ hist = [t \in Tasks |-> NoHist]
  /\ faults = 0
  /\ now = MaxClock

UiNext ==
  \/ ShowShareFolderModal
  \/ HideShareFolderModal
  \/ ConfirmDeleteFolder
  \/ ConfirmAnswer
  \/ ViewFolderContents
  \/ LoadFolder
  \/ RemoveTabFromFolder

SpecUi == UiInit /\ [][UiNext]_vars

\* The share modal of the popup: opened, submitted, closed, opened again.
ModalNext ==
  \/ ShowShareFolderModal
  \/ SubmitShareForm
  \/ HideShareFolderModal

SpecShareModal == UiInit /\ [][ModalNext]_vars

\* The popup lists two folders; delete buttons are clicked and the
\* confirmation dialog is answered.
ConfirmInit ==
  /\ ViewIdle
  /\ ShareIdle
  /\ LZString = TRUE
  /\ stored = <<FolderOf(0, <<>>), [FolderOf(1, <<>>) EXCEPT !.name = "Work"]>>
  /\ mem = [c \in Contexts |-> IF c = Popup THEN stored ELSE <<>>]
  /\ shared = FALSE
  /\ pc = [t \in Tasks |-> "off"]
  /\ op = [t \in Tasks |-> NoOp]
  /\ pending = [t \in Tasks |-> <<>>]
  /\ ret = [t \in Tasks |-> NoResult]
  /\ hist = [t \in Tasks |-> NoHist]
  /\ faults = 0
  /\ now = MaxClock

ConfirmNext ==
  \/ DeleteClicked
  \/ LookupDone
  \/ ConfirmAnswer

SpecConfirm == ConfirmInit /\ [][ConfirmNext]_vars

\* The popup shows one folder with two tabs; rows are removed and tabs are
\* added by handlers that may overlap, and storage serves every request.
RowsInit ==
  /\ fmt = NoFmt
  /\ ShareIdle
  /\ LZString = TRUE
  /\ stored = <<[FolderOf(0, <<>>) EXCEPT !.tabs = SavedTabs]>>
  /\ mem = [c \in Contexts |-> stored]
  /\ shared = TRUE
  /\ pc = [t \in Tasks |-> "idle"]
  /\ op = [t \in Tasks |-> NoOp]
  /\ pending = [t \in Tasks |-> <<>>]
  /\ ret = [t \in Tasks |-> NoResult]
  /\ hist = [t \in Tasks |-> NoHist]
  /\ faults = MaxFaults
  /\ now = MaxClock
  /\ ui = [NoUi EXCEPT !.active = stored[1].id, !.shownTabs = SavedTabs]

RowsNext ==
  \/ \E t \in Tasks : RemoveLookup(t)
  \/ \E t \in Tasks : RemoveUpdate(t)
  \/ \E t \in Tasks : AddTabs(t)
  \/ \E t \in Tasks : SaveDone(t)
  \/ \E t \in Tasks : Rendered(t)

SpecRows == RowsInit /\ [][RowsNext]_vars

\* One formatting call on any selection of tabs with any settings.
FormatInit ==
  /\ ui = NoUi
  /\ ShareIdle
  /\ LZString = TRUE
  /\ StoreIdle
  /\ shared = TRUE
  /\ fmt \in [tabs : TabSelections,
              o : [includeTitles : BOOLEAN, includeUrls : BOOLEAN,
                   formatMarkdown : BOOLEAN, groupByDomain : BOOLEAN,
                   sortByPosition : BOOLEAN, template : Templates],
              out : { NoFmt.out }]

FormatNext ==
  \/ PopupFormat
  \/ CopyAllTabs

SpecFormat == FormatInit /\ [][FormatNext]_vars

(***************************************************************************)
(* Properties                                                              *)
(***************************************************************************)
\* C1: every mutating operation applies its change to the list it has just
\* read from storage, and hands the result to the storage write: the list
\* an operation is about to persist is the stored list with that one change.
C1_ReloadBeforeChange ==
  [][\A t \in Tasks :
       (pc[t] = "idle" /\ pc'[t] = "save") => pending'[t] = Apply(stored, op'[t])]_vars

\* C2: an operation whose storage read or storage write failed reports the
\* failure to its caller instead of returning a normal result.
C2_FailureReported ==
  \A t \in Tasks :
    (pc[t] = "done" /\ (hist[t].readFailed \/ hist[t].writeFailed))
      => ret[t].kind = "error"

\* C3: an operation whose storage read failed leaves the in-memory list of its
\* context as it was, and does not overwrite the persisted list.
C3_FailureLeavesListIntact ==
  [][\A t \in Tasks :
       /\ (pc[t] = "idle" /\ pc'[t] # "idle" /\ hist'[t].readFailed)
            => mem'[CtxOf(t)] = mem[CtxOf(t)]
       /\ (pc[t] = "save" /\ pc'[t] = "done" /\ hist[t].readFailed)
            => stored' = stored]_vars

\* C4: a folder shared under a password and opened on the share page with the
\* same password is shown as the folder that was shared.
C4_ShareRoundTrip ==
  (phase = "viewed" /\ page.typed = share.pw)
    => (page.ok /\ page.folder = share.folder)

C6_OtherPasswordFails ==
  (phase = "decrypted" /\ decIn.tamper.kind = "none" /\ decIn.pw # encIn.pw)
    => ~dec.ok

\* C7: decrypt of an envelope whose v is not 1 fails, and has started neither
\* the key derivation nor the AES operation.
C7_VersionCheckedFirst ==
  (phase \in { "decrypted", "retrieved" } /\ decIn.tamper.kind = "version")
    => (~dec.ok /\ dec.calls = <<>>)

\* C7 happens: an envelope with another version was given to decrypt together
\* with the password it was encrypted under.
C7_Witness ==
  /\ phase = "decrypted"
  /\ decIn.tamper.kind = "version"
  /\ decIn.pw = encIn.pw
  /\ dec.thrown = "Unsupported encryption version"

\* C8: the error decrypt reports for an unsupported version or a malformed
\* envelope is not the error it reports for a wrong password or corrupted data.
C8_FailuresDistinct ==
  (phase = "decrypted" /\ dec.thrown \in { "Unsupported encryption version", "SyntaxError" })
    => dec.err # DecryptionFailed

C10_ShortenFallsBack ==
  (phase \in { "shared", "viewed" } /\ share.long # NoUrl
     /\ share.net \in { "networkError", "status500", "badJson" })
    => /\ share.shareLink = share.long
       /\ share.originalLink = share.long
       /\ share.result = "block"
       /\ share.snackbar = ""
       /\ share.long.base = SHARE_BASE_URL
       /\ SubSeq(share.long.fragment, 1, Len(DataMarker)) = DataMarker
       /\ Len(share.long.fragment) > Len(DataMarker)

\* C10 happens: the shortening service answered a share with a non-2xx status.
C10_Witness ==
  /\ phase = "shared"
  /\ share.long # NoUrl
  /\ share.net = "status500"

\* C11: addTabs on a folder that storage holds hands to the storage write
\* that folder with the tabs storage held, followed by the compact forms of
\* the new tabs in their order.
C11_AddTabsAppends ==
  [][\A t \in Tasks :
       (/\ pc[t] = "idle" /\ pc'[t] # "idle"
        /\ op'[t].name = "addTabs"
        /\ findIndex(stored, op'[t].id) # 0)
         => /\ pc'[t] = "save"
            /\ findIndex(pending'[t], op'[t].id) # 0
            /\ pending'[t][findIndex(pending'[t], op'[t].id)].tabs
                 = stored[findIndex(stored, op'[t].id)].tabs \o CompactAll(op'[t].tabs)]_vars

\* C12: deleteFolder of an id that no stored folder has returns false at once
\* and starts no storage write.
C12_DeleteMissingIsNoOp ==
  [][\A t \in Tasks :
       (/\ pc[t] = "idle" /\ pc'[t] # "idle"
        /\ op'[t].name = "delete"
        /\ findIndex(stored, op'[t].id) = 0)
         => (pc'[t] = "done" /\ ret'[t] = BoolResult(FALSE))]_vars

C14_IdsUnique ==
  \A i, j \in 1..Len(stored) : i # j => stored[i].id # stored[j].id

\* C15: no folder dialog opens for an id that no stored folder has: whenever
\* the share dialog or the delete confirmation is opened for an id, a stored
\* folder has that id.
C15_NoDialogForUnknownId ==
  [][/\ (/\ ui'.shareFolderModal = "flex"
         /\ (ui.shareFolderModal # "flex" \/ ui.shareFolderId # ui'.shareFolderId))
          => findIndex(stored, ui'.shareFolderId) # 0
     /\ (ui'.confirmDialog = "flex" /\ ui.confirmDialog # "flex")
          => findIndex(stored, ui'.confirmFor) # 0]_vars

\* C16: once the folder preview page has loaded, no handler leaves its
\* loading indicator showing in place of the folder header and tab list.
C16_NothingStuck ==
  ui.opened => (ui.loadingContainer = "none" /\ ui.tabList = "block")

\* C17: a formatting call with neither titles nor URLs requested still puts
\* every tab's URL into its output (a URL has no line break, so the line it
\* is on is not empty).
C17_UrlFallback ==
  (fmt.out.by # "none" /\ ~fmt.o.includeTitles /\ ~fmt.o.includeUrls)
    => \A i \in 1..Len(fmt.tabs) : Includes(fmt.out.text, fmt.tabs[i].url)

\* C18: with a template that holds none of the four placeholders, every
\* tab's line of an ungrouped output is the template, character for character.
C18_PlainTemplateUnchanged ==
  (/\ fmt.out.by # "none"
   /\ fmt.o.includeTitles
   /\ ~fmt.o.groupByDomain
   /\ fmt.o.template # <<>>
   /\ \A ph \in { TitlePlaceholder, UrlPlaceholder, IndexPlaceholder,
                  DomainIndexPlaceholder } : ~Includes(fmt.o.template, ph))
    => fmt.out.text = Join([i \in 1..Len(fmt.tabs) |-> fmt.o.template], NewLine)

\* C19: with the template `{{@index}}/{{@domainIndex}} {{url}}` the tabs
\* appear in some order such that the k-th tab's line is k, a slash, the
\* tab's 1-based position among the tabs of its domain, a space and its
\* URL; no placeholder is left in the output.
C19_IndexesReplaced ==
  (/\ fmt.out.by # "none"
   /\ fmt.o.template = IndexTemplate
   /\ fmt.o.includeTitles
   /\ fmt.out.by = "popup" => fmt.o.includeUrls)
    => /\ ~Includes(fmt.out.text, IndexPlaceholder)
       /\ ~Includes(fmt.out.text, DomainIndexPlaceholder)
       /\ \E order \in { s \in [1..Len(fmt.tabs) -> 1..Len(fmt.tabs)] :
                           \A i, j \in 1..Len(fmt.tabs) : i # j => s[i] # s[j] } :
            \A k \in 1..Len(fmt.tabs) :
              Includes(NewLine \o fmt.out.text \o NewLine,
                       NewLine \o NumText(k) \o <<"/">>
                         \o NumText(Cardinality(
                              { j \in 1..k :
                                  Hostname(fmt.tabs[order[j]].url).val
                                    = Hostname(fmt.tabs[order[k]].url).val }))
                         \o <<" ">> \o fmt.tabs[order[k]].url \o NewLine)

\* C20: grouped and unsorted, with the default Markdown template, the
\* output's non-blank lines are, for each domain in the order of its first
\* occurrence in the input, the domain's header line followed by the lines
\* of that domain's tabs in input order.
C20_GroupsInFirstSeenOrder ==
  (/\ fmt.out.by # "none"
   /\ fmt.o.groupByDomain
   /\ ~fmt.o.sortByPosition
   /\ fmt.o.formatMarkdown
   /\ fmt.o.template = DefaultFormatTemplate
   /\ fmt.o.includeTitles
   /\ fmt.out.by = "popup" => fmt.o.includeUrls)
    => LET text == fmt.out.text
           kept == { i \in 1..Len(text) :
                       ~(/\ text[i] = "\n"
                         /\ \/ i = 1
                            \/ text[i - 1] = "\n"
                            \/ \A j \in i..Len(text) : text[j] = "\n") }
           nonBlank == [k \in 1..Cardinality(kept) |->
                          text[CHOOSE i \in kept :
                                 Cardinality({ j \in kept : j < i }) = k - 1]]
           hosts == Uniq([i \in 1..Len(fmt.tabs) |-> Hostname(fmt.tabs[i].url).val])
           line(tab) == <<"-", " ", "[">> \o tab.title \o <<"]", "(">> \o tab.url \o <<")">>
           expected(unnamed) ==
             Join([h \in 1..Len(hosts) |->
                     <<"#", "#", " ">>
                       \o (IF hosts[h] = <<>> THEN unnamed ELSE hosts[h])
                       \o NewLine
                       \o Join([k \in 1..Len(SelectSeq(fmt.tabs,
                                     LAMBDA tab : Hostname(tab.url).val = hosts[h])) |->
                                  line(SelectSeq(fmt.tabs,
                                     LAMBDA tab : Hostname(tab.url).val = hosts[h])[k])],
                               NewLine)],
                  NewLine)
       IN \E unnamed \in { <<>>, <<"U", "n", "k", "n", "o", "w", "n", " ",
                                   "D", "o", "m", "a", "i", "n">> } :
            nonBlank = expected(unnamed)

\* C21: for the text handed to encrypt, with LZString defined or not,
\* compressData returns and decompressData of its result is the text.
C21_CompressRoundTrip ==
  phase = "encrypted"
    => /\ compressData(encIn.p, LZString).ok
       /\ decompressData(compressData(encIn.p, LZString).val, LZString).ok
       /\ decompressData(compressData(encIn.p, LZString).val, LZString).val = encIn.p

\* C22: in one context no mutating operation starts (reloads and changes the
\* in-memory list) while another one of that context is between its reload
\* and its persist.
C22_MutationsDoNotOverlap ==
  [][\A t, u \in Tasks :
       (/\ t # u
        /\ CtxOf(t) = CtxOf(u)
        /\ pc[u] = "save"
        /\ pc[t] = "idle"
        /\ pc'[t] # "idle")
         => op'[t].name = "get"]_vars

\* C23: nothing guards the stored list between contexts: a write that
\* succeeds replaces the whole stored list with the writer's own copy, so
\* the last write wins.
C23_LastWriteWins ==
  [][\A t \in Tasks :
       (pc[t] = "save" /\ pc'[t] = "done" /\ ~hist'[t].writeFailed)
         => stored' = pending[t]]_vars

\* Two contexts each created a folder, both calls returned their folder and
\* no read or write failed, yet storage holds only one of the two folders.
C23_Witness ==
  /\ ~shared
  /\ \A t \in Tasks :
       /\ pc[t] = "done"
       /\ op[t].name = "create"
       /\ ret[t] = FolderResult(op[t].folder)
       /\ ~hist[t].readFailed
       /\ ~hist[t].writeFailed
  /\ op[1].folder.id # op[2].folder.id
  /\ Len(stored) = 1
  /\ \E t \in Tasks : findIndex(stored, op[t].folder.id) = 0

\* C24: when the share modal is opened again after a share succeeded and
\* the modal was closed, the password form is presented.
C24_FormShownAgain ==
  [][(/\ phase = "shared"
      /\ share.shareLink # NoUrl
      /\ ui.shareFolderModal = "none"
      /\ ui'.shareFolderModal = "flex")
        => share'.form = "block"]_vars

\* C25: once the user has clicked OK or Cancel and the dialog is closed, no
\* caller of customConfirm is left with an unresolved promise, also when a
\* second confirmation was opened while the first was pending.
C25_EveryCallerAnswered ==
  ui.confirmDialog = "none" => ui.waiting = {}

\* C26: a folder leaves storage through the delete button only in the step
\* where OK is clicked, and only if OK was clicked in a dialog naming that
\* folder; Cancel, and a dialog that cannot be shown, remove nothing.
C26_DeleteOnlyAfterOk ==
  [][\A i \in 1..Len(stored) :
       findIndex(stored', stored[i].id) = 0
         => /\ ui.confirmDialog = "flex"
            /\ ui'.confirmDialog = "none"
            /\ ui'.answer = "ok"
            /\ stored[i].name \in ui'.okNames]_vars

\* Two confirmations were opened one over the other, OK was clicked in the
\* dialog naming the second folder, and that folder alone left storage.
C26_Witness ==
  /\ ui.answer = "ok"
  /\ ui.okNames = { "Work" }
  /\ ui.waiting # {}
  /\ Len(stored) = 1
  /\ stored[1].name = "Research"

\* C27: the write of a removal never takes out of storage a tab of the kind
\* addTabs appends when the tab the removal filtered out is a different one.
C27_AppendedTabKept ==
  [][\A t \in Tasks :
       (/\ pc[t] = "save"
        /\ pc'[t] = "done"
        /\ op[t].name = "update"
        /\ op[t].tabIndex <= Len(op[t].folder.tabs))
         => \A b \in BrowserTabs :
              op[t].folder.tabs[op[t].tabIndex] # chromeTabToCompactTab(b)
                => Cardinality({ i \in 1..Len(stored'[1].tabs) :
                                   stored'[1].tabs[i] = chromeTabToCompactTab(b) })
                     >= Cardinality({ i \in 1..Len(stored[1].tabs) :
                                        stored[1].tabs[i] = chromeTabToCompactTab(b) })]_vars

\* C28: when the remove buttons of two different rows of one rendering were
\* clicked and both removals have been written, neither of the two tabs is
\* left in the stored folder.
C28_BothRowsRemoved ==
  (/\ \A t \in Tasks : pc[t] = "done" /\ op[t].name = "update"
   /\ op[1].tabIndex # op[2].tabIndex
   /\ ui.shownTabs = SavedTabs)
    => \A t \in Tasks : \A i \in 1..Len(stored[1].tabs) :
         stored[1].tabs[i] # SavedTabs[op[t].tabIndex]

\* C29: the popup reports "copied" only when the text was placed on the
\* clipboard.
C29_CopiedOnlyWhenPlaced ==
  fmt.out.snackbar = "All tabs copied to clipboard" => fmt.out.placed

\* C30: in the popup's output every tab's title stands as stored when titles
\* are included and the template has the title placeholder, and every tab's
\* URL stands as stored when URLs are included and the template has the URL
\* placeholder.
C30_FieldsUnaltered ==
  fmt.out.by = "popup"
    => \A i \in 1..Len(fmt.tabs) :
         /\ (fmt.o.includeTitles
               /\ (fmt.o.template = <<>> \/ Includes(fmt.o.template, TitlePlaceholder)))
              => Includes(fmt.out.text, fmt.tabs[i].title)
         /\ (fmt.o.includeUrls
               /\ (fmt.o.template = <<>> \/ Includes(fmt.o.template, UrlPlaceholder)))
              => Includes(fmt.out.text, fmt.tabs[i].url)

====
